---- MODULE Spec2Model ----
(***************************************************************************)
(* Job execution engine of vampire (apps/server/src/worker.ts), the agent  *)
(* provider it drives (providers/claude.ts) and the job routes that race   *)
(* with it (routes/jobs.ts: cancel, live log stream).                      *)
(*                                                                         *)
(* One job is followed from the moment the route has created its record    *)
(* (status 'running') until its done event.  Every awaited operation of    *)
(* runWorker is one program location; the action at a location is the      *)
(* completion of that operation together with the synchronous code up to   *)
(* the next await.  External commands, the store and the file system may   *)
(* fail wherever the code awaits them.                                     *)
(***************************************************************************)
EXTENDS Integers, Sequences, FiniteSets

\* worker.ts:300  const MAX_RETRY = 2
MAX_RETRY == 2

\* Number of cancel requests (POST /api/jobs/:jobId/cancel) sent for the job.
MaxCancels == 1
\* Number of clients that open the live log stream of the job.
MaxSubs == 1

Cancels == 1..MaxCancels
Subs == 1..MaxSubs

Terminal == {"completed", "failed", "cancelled"}

VARIABLES
  cfg,           \* inputs of runWorker: isDirect, isFollowUp, providerKnown
  pc,            \* program location of the job (the await it is suspended on)
  status,        \* persisted job.status
  issueTitleSaved, \* the early prisma.job.update({issueTitle}) has been done
  outcome,       \* settlement of workerPromise
  error,         \* class of the err.message that unwound the job
  finalStatus,   \* local finalStatus of the then/catch handler
  activeWorkers, \* the registry holds an entry for the job
  childProcess,  \* runWorker's childProcess variable is non-null
  child,         \* the agent subprocess
  cloneDir,      \* runWorker's cloneDir variable is non-null
  dirExists,     \* the directory named by cloneDir exists on disk
  attempt,       \* loop counter of the retry loop
  curBranch,     \* branch checked out in the workspace
  inspect,       \* results of the change inspection after the last agent run
  logBuffer,     \* notable lines of runWorker's logBuffer
  flushTimer,    \* flushTimers has an entry for the job
  dbLog,         \* persisted job.log (notable lines)
  agentRuns,     \* number of provider.runAgent calls
  gitOps,        \* commit-stage commands invoked so far
  comments,      \* number of gh issue comment invocations
  rmAttempts,    \* number of rm(cloneDir) calls
  spawned,       \* the job has spawned a subprocess
  preSpawnCancel,\* status was set to cancelled before any subprocess
  doneEvents,    \* statuses published on job:<id>:done, in order
  pubAfterDone,  \* something was published on job:<id> after the done event
  cancels,       \* cancel requests
  subs,          \* live log stream requests
  finalWriteOk,  \* the terminal prisma.job.update of the handler resolved
  parser,        \* the provider's stdout parser fed chunk by chunk
  extract,       \* the change-description extraction applied to a text
  api,           \* the job table and the requests that start jobs
  ws,            \* the workspaces of jobs running side by side
  debounce,      \* scheduleFlush and its timers on a millisecond clock
  bus,           \* lines published on a job's topic and a stream client
  ctx,           \* context resolution and workspace checkout of a job
  prompt         \* the prompts built for the agent attempts of a job

vars == <<cfg, pc, status, issueTitleSaved, outcome, error, finalStatus,
          activeWorkers, childProcess, child, cloneDir, dirExists, attempt,
          curBranch, inspect, logBuffer, flushTimer, dbLog, agentRuns, gitOps,
          comments, rmAttempts, spawned, preSpawnCancel, doneEvents,
          pubAfterDone, cancels, subs, finalWriteOk, parser, extract,
          api, ws, debounce, bus, ctx, prompt>>

NoInspect == [unstaged |-> "none", staged |-> "none", untracked |-> "none"]

\* State variables of the parts modelled on their own, outside the job.
other == <<parser, extract, api, ws, debounce, bus, ctx, prompt>>

\* The timer, bus, context and prompt parts, each modelled on its own.
rest == <<debounce, bus, ctx, prompt>>

RestOff ==
  /\ debounce = "off"
  /\ bus = "off"
  /\ ctx = "off"
  /\ prompt = "off"

\* The job right after the route created its record.
InitJob ==
  /\ cfg \in [isDirect : BOOLEAN, isFollowUp : BOOLEAN, providerKnown : BOOLEAN]
  /\ pc = "created"
  /\ status = "running"
  /\ issueTitleSaved = FALSE
  /\ outcome = "pending"
  /\ error = "none"
  /\ finalStatus = "none"
  /\ activeWorkers = FALSE
  /\ childProcess = FALSE
  /\ child = "none"
  /\ cloneDir = FALSE
  /\ dirExists = FALSE
  /\ attempt = 1
  /\ curBranch = "none"
  /\ inspect = NoInspect
  /\ logBuffer = {}
  /\ flushTimer = FALSE
  /\ dbLog = {}
  /\ agentRuns = 0
  /\ gitOps = {}
  /\ comments = 0
  /\ rmAttempts = 0
  /\ spawned = FALSE
  /\ preSpawnCancel = FALSE
  /\ doneEvents = <<>>
  /\ pubAfterDone = FALSE
  /\ cancels = [c \in Cancels |-> "idle"]
  /\ subs = [s \in Subs |-> [pc |-> "idle", seen |-> "none", late |-> FALSE,
                             data |-> FALSE, dones |-> <<>>]]
  /\ finalWriteOk = FALSE

Init ==
  /\ InitJob
  /\ parser = "off"
  /\ extract = "off"
  /\ api = "off"
  /\ ws = "off"
  /\ RestOff

----------------------------------------------------------------------------
(* Log broadcast bus and debounced flush *)

\* logEmitter.emit(`job:<id>`, chunk): every registered onLog listener
\* writes one data event.
EmitLog(ss) ==
  [s \in Subs |-> IF ss[s].pc = "listening"
                  THEN [ss[s] EXCEPT !.data = TRUE] ELSE ss[s]]

\* logEmitter.emit(`job:<id>:done`, st): every registered onDone listener
\* (registered with once) writes the done event and ends its stream.
EmitDone(ss, st) ==
  [s \in Subs |-> IF ss[s].pc = "listening"
                  THEN [ss[s] EXCEPT !.pc = "ended",
                                     !.dones = Append(@, st)]
                  ELSE ss[s]]

\* log(text), for the lines `tags` and any number of unremarkable lines:
\* append to logBuffer, publish on the job's topic, schedule a flush.
Log(tags) ==
  /\ logBuffer' = logBuffer \cup tags
  /\ subs' = EmitLog(subs)
  /\ pubAfterDone' = (pubAfterDone \/ doneEvents # <<>>)
  /\ flushTimer' = TRUE

NoLog == UNCHANGED <<logBuffer, subs, pubAfterDone, flushTimer>>

\* The timer set by scheduleFlush fires: the entry is deleted and the log
\* field alone is written; a failure of the write is swallowed.
Flush ==
  /\ flushTimer
  /\ flushTimer' = FALSE
  /\ \E ok \in BOOLEAN : dbLog' = IF ok THEN logBuffer ELSE dbLog
  /\ UNCHANGED <<cfg, other, pc, status, issueTitleSaved, outcome, error,
                 finalStatus, activeWorkers, childProcess, child, cloneDir,
                 dirExists, attempt, curBranch, inspect, logBuffer, agentRuns,
                 gitOps, comments, rmAttempts, spawned, preSpawnCancel, finalWriteOk,
                 doneEvents, pubAfterDone, cancels, subs>>

----------------------------------------------------------------------------
(* Unwinding of workerPromise *)

\* isCancelled(prisma, jobId): the values the call can return.  A failed
\* read is swallowed and reported as not cancelled.
isCancelled == {status = "cancelled", FALSE}

\* After the finally block: workerPromise settles and its then handler
\* (fulfilled) or catch handler (rejected) starts.  A cancelled result skips
\* the handler's isCancelled call and goes straight to the terminal write.
Settle(out) ==
  /\ pc' = CASE out = "rejected"  -> "catchIsCancelled"
             [] out = "cancelled" -> "finalWrite"
             [] OTHER             -> "thenIsCancelled"
  /\ finalStatus' = IF out = "cancelled" THEN "cancelled" ELSE finalStatus

\* Unwind with the cancelled sentinel returning past the cleanup.
UnwindSkipsCleanup(out, err, tags) ==
  /\ CASE out = "rejected"  -> Log(tags \cup {"Error"})
       [] out = "cancelled" -> NoLog
       [] OTHER             -> Log(tags)
  /\ outcome' = out
  /\ error' = err
  /\ IF cloneDir /\ out # "cancelled"
       THEN /\ pc' = "rm"
            /\ rmAttempts' = rmAttempts + 1
            /\ finalStatus' = finalStatus
       ELSE /\ Settle(out)
            /\ rmAttempts' = rmAttempts

\* Unwind with the catch block rethrowing without its "Error: ..." line.
UnwindWithoutErrorLine(out, err, tags) ==
  /\ IF out = "cancelled" THEN NoLog ELSE Log(tags)
  /\ outcome' = out
  /\ error' = err
  /\ IF cloneDir
       THEN /\ pc' = "rm"
            /\ rmAttempts' = rmAttempts + 1
            /\ finalStatus' = finalStatus
       ELSE /\ Settle(out)
            /\ rmAttempts' = rmAttempts

\* The catch and finally blocks of workerPromise for a body that ended with
\* `out`, after logging the lines `tags`: a cancelled sentinel becomes the
\* result {status: 'cancelled'}; any other error is logged and rethrown; the
\* workspace removal is awaited when cloneDir is set.
Unwind(out, err, tags) ==
  /\ CASE out = "rejected"  -> Log(tags \cup {"Error"})
       [] out = "cancelled" -> NoLog
       [] OTHER             -> Log(tags)
  /\ outcome' = out
  /\ error' = err
  /\ IF cloneDir
       THEN /\ pc' = "rm"
            /\ rmAttempts' = rmAttempts + 1
            /\ finalStatus' = finalStatus
       ELSE /\ Settle(out)
            /\ rmAttempts' = rmAttempts

Throw(err) == Unwind("rejected", err, {})
ThrowCancelled == Unwind("cancelled", "cancelled", {})

----------------------------------------------------------------------------
(* runWorker: the body of workerPromise *)

\* Variables that neither a plain step nor the unwinding touches.
Rest ==
  <<cfg, other, status, issueTitleSaved, activeWorkers, childProcess, child,
    cloneDir, dirExists, attempt, curBranch, inspect, dbLog, agentRuns,
    gitOps, comments, spawned, preSpawnCancel, finalWriteOk, doneEvents, cancels>>

\* The body goes on to the await at `next`, logging `tags` when `logs`.
Step(next, logs, tags) ==
  /\ pc' = next
  /\ IF logs THEN Log(tags) ELSE NoLog
  /\ UNCHANGED <<outcome, error, finalStatus, rmAttempts>>

\* runWorker({job, project, prisma, followUp}): the synchronous part of the
\* call.  The async body runs up to its first await, the then/catch handlers
\* are attached, and the worker is entered in the registry.
RunWorker ==
  /\ pc = "created"
  /\ activeWorkers' = TRUE
  /\ IF ~cfg.providerKnown
       THEN /\ Throw("unknownProvider")
            /\ spawned' = spawned
       ELSE IF cfg.isFollowUp \/ cfg.isDirect
         THEN /\ Step("ckpt1", TRUE, {})
              /\ spawned' = spawned
         ELSE /\ Step("ghTitle", TRUE, {})
              /\ spawned' = TRUE
  /\ UNCHANGED <<cfg, other, status, issueTitleSaved, childProcess, child, cloneDir,
                 dirExists, attempt, curBranch, inspect, dbLog, agentRuns,
                 gitOps, comments, preSpawnCancel, finalWriteOk, doneEvents, cancels>>

\* exec('gh', ['issue', 'view', ..., 'title']) exits.
GhTitle ==
  /\ pc = "ghTitle"
  /\ \/ Step("ghBody", FALSE, {})
     \/ Throw("exec")
  /\ UNCHANGED Rest

\* exec('gh', ['issue', 'view', ..., 'body']) exits.
GhBody ==
  /\ pc = "ghBody"
  /\ \/ Step("saveTitle", FALSE, {})
     \/ Throw("exec")
  /\ UNCHANGED Rest

\* prisma.job.update({ data: { issueTitle } }) settles.
SaveTitle ==
  /\ pc = "saveTitle"
  /\ \/ /\ Step("ckpt1", TRUE, {})
        /\ issueTitleSaved' = TRUE
     \/ /\ Throw("exec")
        /\ issueTitleSaved' = issueTitleSaved
  /\ UNCHANGED <<cfg, other, status, activeWorkers, childProcess, child, cloneDir,
                 dirExists, attempt, curBranch, inspect, dbLog, agentRuns,
                 gitOps, comments, spawned, preSpawnCancel, finalWriteOk, doneEvents,
                 cancels>>

\* Checkpoint before the fetch stage; then exec('git', ['fetch', ...]).
Ckpt1 ==
  /\ pc = "ckpt1"
  /\ \E c \in isCancelled :
       IF c THEN ThrowCancelled /\ spawned' = spawned
            ELSE Step("fetchBase", TRUE, {}) /\ spawned' = TRUE
  /\ UNCHANGED <<cfg, other, status, issueTitleSaved, activeWorkers, childProcess,
                 child, cloneDir, dirExists, attempt, curBranch, inspect,
                 dbLog, agentRuns, gitOps, comments, preSpawnCancel, finalWriteOk,
                 doneEvents, cancels>>

\* git fetch origin <baseBranch> exits.
FetchBase ==
  /\ pc = "fetchBase"
  /\ \/ IF cfg.isFollowUp THEN Step("fetchBranch", FALSE, {})
                          ELSE Step("remoteUrl", TRUE, {})
     \/ Throw("exec")
  /\ UNCHANGED Rest

\* git fetch origin <branchName> in the project directory exits (advisory:
\* a failure is swallowed).
FetchBranch ==
  /\ pc = "fetchBranch"
  /\ Step("remoteUrl", TRUE, {})
  /\ UNCHANGED Rest

\* git remote get-url origin exits; cloneDir is named and the clone starts.
RemoteUrl ==
  /\ pc = "remoteUrl"
  /\ \/ /\ Step("clone", FALSE, {})
        /\ cloneDir' = TRUE
     \/ /\ Throw("exec")
        /\ cloneDir' = cloneDir
  /\ UNCHANGED <<cfg, other, status, issueTitleSaved, activeWorkers, childProcess,
                 child, dirExists, attempt, curBranch, inspect, dbLog,
                 agentRuns, gitOps, comments, spawned, preSpawnCancel, finalWriteOk,
                 doneEvents, cancels>>

\* git clone <projectRoot> <cloneDir> --branch <baseBranch> exits.  A failed
\* clone may leave the directory behind.
Clone ==
  /\ pc = "clone"
  /\ \/ /\ Step("setUrl", FALSE, {})
        /\ dirExists' = TRUE
        /\ curBranch' = "base"
     \/ /\ Throw("exec")
        /\ dirExists' \in BOOLEAN
        /\ curBranch' = curBranch
  /\ UNCHANGED <<cfg, other, status, issueTitleSaved, activeWorkers, childProcess,
                 child, cloneDir, attempt, inspect, dbLog, agentRuns, gitOps,
                 comments, spawned, preSpawnCancel, finalWriteOk, doneEvents, cancels>>

\* git remote set-url origin <remoteUrl> exits.
SetUrl ==
  /\ pc = "setUrl"
  /\ \/ Step(IF cfg.isFollowUp THEN "fetchWs" ELSE "lsRemote", FALSE, {})
     \/ Throw("exec")
  /\ UNCHANGED Rest

\* Follow-up: git fetch origin <branchName> in the workspace exits.
FetchWs ==
  /\ pc = "fetchWs"
  /\ \/ Step("checkout", FALSE, {})
     \/ Throw("exec")
  /\ UNCHANGED Rest

\* New work: git ls-remote --heads origin <branchName> exits (advisory).
LsRemote ==
  /\ pc = "lsRemote"
  /\ \E found \in BOOLEAN : Step("checkout", found, {})
  /\ UNCHANGED Rest

\* git checkout -b <branchName> [origin/<branchName>] exits.
Checkout ==
  /\ pc = "checkout"
  /\ \/ /\ Step("ckpt2", TRUE, {})
        /\ curBranch' = "feature"
     \/ /\ Throw("exec")
        /\ curBranch' = curBranch
  /\ UNCHANGED <<cfg, other, status, issueTitleSaved, activeWorkers, childProcess,
                 child, cloneDir, dirExists, attempt, inspect, dbLog,
                 agentRuns, gitOps, comments, spawned, preSpawnCancel, finalWriteOk,
                 doneEvents, cancels>>

\* Checkpoint before the agent stage; the prompt is built and the retry
\* loop is entered with attempt = 1.
Ckpt2 ==
  /\ pc = "ckpt2"
  /\ \E c \in isCancelled :
       IF c THEN ThrowCancelled ELSE Step("loopCkpt", TRUE, {})
  /\ UNCHANGED Rest

\* Checkpoint at the head of the retry loop, then provider.runAgent: the
\* agent process is spawned (or fails to spawn) and childProcess is set.
\* The process may exit on its own ("run", "runDeaf") or never ("hang",
\* "deaf"), and may die of SIGTERM ("run", "hang") or ignore it ("runDeaf",
\* "deaf"; "runDeafTermed", "deafTermed" once it has been sent).
LoopCkpt ==
  /\ pc = "loopCkpt"
  /\ \E c \in isCancelled :
       IF c
         THEN /\ ThrowCancelled
              /\ UNCHANGED <<childProcess, child, agentRuns, inspect>>
         ELSE /\ Step("agent", attempt > 1, {})
              /\ childProcess' = TRUE
              /\ child' \in {"run", "hang", "deaf", "runDeaf", "spawnError"}
              /\ agentRuns' = agentRuns + 1
              /\ inspect' = NoInspect
  /\ UNCHANGED <<cfg, other, status, issueTitleSaved, activeWorkers, cloneDir,
                 dirExists, attempt, curBranch, dbLog, gitOps, comments,
                 spawned, preSpawnCancel, finalWriteOk, doneEvents, cancels>>

Alive == {"run", "hang", "deaf", "runDeaf", "deafTermed", "runDeafTermed"}

\* The running agent writes to stdout or stderr: the provider's callbacks
\* log a tool use or a text block.
AgentOutput ==
  /\ pc = "agent"
  /\ child \in Alive
  /\ Step("agent", TRUE, {})
  /\ UNCHANGED Rest

\* AgentExit with a failed agent run counted as an attempt without changes.
AgentExitFailureRetried ==
  /\ pc = "agent"
  /\ \/ /\ child \in {"run", "runDeaf", "runDeafTermed"}
        /\ Step("diff1", TRUE, {})
        /\ childProcess' = FALSE
        /\ curBranch' \in {"feature", "base"}
     \/ /\ child \in {"run", "runDeaf", "runDeafTermed", "killed", "spawnError"}
        /\ Step("lsFiles", TRUE, {})
        /\ UNCHANGED <<childProcess, curBranch>>
  /\ child' = "none"
  /\ UNCHANGED <<cfg, other, status, issueTitleSaved, activeWorkers, cloneDir,
                 dirExists, attempt, inspect, dbLog, agentRuns, gitOps,
                 comments, spawned, preSpawnCancel, finalWriteOk, doneEvents, cancels>>

\* AgentExit with handle.result settling while the process is still alive.
AgentExitBeforeClose ==
  /\ pc = "agent"
  /\ \/ /\ child \in {"run", "runDeaf", "runDeafTermed"}
        /\ Step("diff1", TRUE, {})
        /\ childProcess' = FALSE
        /\ curBranch' \in {"feature", "base"}
     \/ /\ child \in {"run", "runDeaf", "runDeafTermed", "killed", "spawnError"}
        /\ Throw(IF child = "killed" THEN "killed" ELSE "agent")
        /\ UNCHANGED <<childProcess, curBranch>>
  /\ child' = child
  /\ UNCHANGED <<cfg, other, status, issueTitleSaved, activeWorkers, cloneDir,
                 dirExists, attempt, inspect, dbLog, agentRuns, gitOps,
                 comments, spawned, preSpawnCancel, finalWriteOk, doneEvents, cancels>>

\* The agent process closes (or its spawn fails): handle.result resolves on
\* exit code 0 and rejects otherwise (with code null, error "killed", when the
\* process died of the signal).  On success childProcess is reset and
\* the change inspection starts; the agent may have switched branches.
AgentExit ==
  /\ pc = "agent"
  /\ \/ /\ child \in {"run", "runDeaf", "runDeafTermed"}
        /\ Step("diff1", TRUE, {})
        /\ childProcess' = FALSE
        /\ curBranch' \in {"feature", "base"}
     \/ /\ child \in {"run", "runDeaf", "runDeafTermed", "killed", "spawnError"}
        /\ Throw(IF child = "killed" THEN "killed" ELSE "agent")
        /\ UNCHANGED <<childProcess, curBranch>>
  /\ child' = "none"
  /\ UNCHANGED <<cfg, other, status, issueTitleSaved, activeWorkers, cloneDir,
                 dirExists, attempt, inspect, dbLog, agentRuns, gitOps,
                 comments, spawned, preSpawnCancel, finalWriteOk, doneEvents, cancels>>

InspectResults == {"empty", "changed", "error"}

\* Diff1 with a failing inspection command escaping the try block.
Diff1FailureThrows ==
  /\ pc = "diff1"
  /\ \E r \in InspectResults :
       /\ inspect' = [inspect EXCEPT !.unstaged = r]
       /\ IF r = "error"
            THEN Throw("exec")
            ELSE Step(IF r = "empty" THEN "diff2" ELSE "ckpt4", FALSE, {})
  /\ UNCHANGED <<cfg, other, status, issueTitleSaved, activeWorkers, childProcess,
                 child, cloneDir, dirExists, attempt, curBranch, dbLog,
                 agentRuns, gitOps, comments, spawned, preSpawnCancel, finalWriteOk,
                 doneEvents, cancels>>

\* git diff --quiet exits: exit 0 (no unstaged change) goes on; a change or
\* a failure makes exec throw, hasChanges = true, and the loop breaks.
Diff1 ==
  /\ pc = "diff1"
  /\ \E r \in InspectResults :
       /\ inspect' = [inspect EXCEPT !.unstaged = r]
       /\ Step(IF r = "empty" THEN "diff2" ELSE "ckpt4", FALSE, {})
  /\ UNCHANGED <<cfg, other, status, issueTitleSaved, activeWorkers, childProcess,
                 child, cloneDir, dirExists, attempt, curBranch, dbLog,
                 agentRuns, gitOps, comments, spawned, preSpawnCancel, finalWriteOk,
                 doneEvents, cancels>>

\* git diff --cached --quiet exits.
Diff2 ==
  /\ pc = "diff2"
  /\ \E r \in InspectResults :
       /\ inspect' = [inspect EXCEPT !.staged = r]
       /\ Step(IF r = "empty" THEN "lsFiles" ELSE "ckpt4", FALSE, {})
  /\ UNCHANGED <<cfg, other, status, issueTitleSaved, activeWorkers, childProcess,
                 child, cloneDir, dirExists, attempt, curBranch, dbLog,
                 agentRuns, gitOps, comments, spawned, preSpawnCancel, finalWriteOk,
                 doneEvents, cancels>>

\* The retry budget test off by one.
ExhaustedLate == attempt > MAX_RETRY + 1

\* The retry budget is used up: attempt > MAX_RETRY.
Exhausted == attempt > MAX_RETRY

\* The diagnostic comment attempted for every job.
WantsCommentAlways == TRUE

\* The diagnostic issue comment is attempted for jobs with an issue number.
WantsComment == ~cfg.isDirect

\* git ls-files --others --exclude-standard exits.  With no change found:
\* after the last attempt the exhaustion line is logged and the diagnostic
\* comment is attempted (issue jobs) or the error thrown (direct jobs);
\* otherwise the next attempt starts with its checkpoint.
LsFiles ==
  /\ pc = "lsFiles"
  /\ \E r \in InspectResults :
       /\ inspect' = [inspect EXCEPT !.untracked = r]
       /\ IF r # "empty"
            THEN /\ Step("ckpt4", FALSE, {})
                 /\ UNCHANGED <<attempt, comments>>
            ELSE IF Exhausted
              THEN IF WantsComment
                     THEN /\ Step("comment", TRUE, {"NoChanges"})
                          /\ comments' = comments + 1
                          /\ attempt' = attempt
                     ELSE /\ Unwind("rejected", "noChanges", {"NoChanges"})
                          /\ UNCHANGED <<attempt, comments>>
              ELSE /\ Step("loopCkpt", TRUE, {})
                   /\ attempt' = attempt + 1
                   /\ comments' = comments
  /\ UNCHANGED <<cfg, other, status, issueTitleSaved, activeWorkers, childProcess,
                 child, cloneDir, dirExists, curBranch, dbLog, agentRuns,
                 gitOps, spawned, preSpawnCancel, finalWriteOk, doneEvents, cancels>>

\* gh issue comment exits; its failure is swallowed.  Then the exhaustion
\* error is thrown.
Comment ==
  /\ pc = "comment"
  /\ Throw("noChanges")
  /\ UNCHANGED Rest

\* Checkpoint before the commit stage, then git branch --show-current.
Ckpt4 ==
  /\ pc = "ckpt4"
  /\ \E c \in isCancelled :
       IF c THEN ThrowCancelled ELSE Step("branchQuery", TRUE, {})
  /\ UNCHANGED Rest

\* The push-safety test left out.
OnBaseBranchNever == FALSE

\* The push-safety test of the commit stage on the branch just read.
OnBaseBranch == curBranch = "base"

\* git branch --show-current exits: on the base branch the job aborts,
\* otherwise git add -A is invoked.
BranchQuery ==
  /\ pc = "branchQuery"
  /\ \/ /\ OnBaseBranch
        /\ Throw("fatalBranch")
        /\ gitOps' = gitOps
     \/ /\ ~OnBaseBranch
        /\ Step("gitAdd", FALSE, {})
        /\ gitOps' = gitOps \cup {"add"}
     \/ /\ Throw("exec")
        /\ gitOps' = gitOps
  /\ UNCHANGED <<cfg, other, status, issueTitleSaved, activeWorkers, childProcess,
                 child, cloneDir, dirExists, attempt, curBranch, inspect,
                 dbLog, agentRuns, comments, spawned, preSpawnCancel, finalWriteOk,
                 doneEvents, cancels>>

\* A command of the commit stage at `at` exits: on success the command
\* `op` is invoked (or `op` is recorded as achieved) and the job waits at
\* `next`.
CommitStage(at, next, op) ==
  /\ pc = at
  /\ \/ /\ Step(next, FALSE, {})
        /\ gitOps' = gitOps \cup {op}
     \/ /\ Throw("exec")
        /\ gitOps' = gitOps
  /\ UNCHANGED <<cfg, other, status, issueTitleSaved, activeWorkers, childProcess,
                 child, cloneDir, dirExists, attempt, curBranch, inspect,
                 dbLog, agentRuns, comments, spawned, preSpawnCancel, finalWriteOk,
                 doneEvents, cancels>>

\* git add -A exits; git commit is invoked.
GitAdd == CommitStage("gitAdd", "gitCommit", "commit")

\* git commit exits; git push --force-with-lease is invoked.
GitCommit == CommitStage("gitCommit", "gitPush", "push")

\* GitPush with a failed push swallowed: the body goes on to the diff.
GitPushFailureSwallowed ==
  /\ pc = "gitPush"
  /\ \/ /\ Step("diffHead", FALSE, {})
        /\ gitOps' = gitOps \cup {"pushed"}
     \/ /\ Step("diffHead", FALSE, {})
        /\ gitOps' = gitOps
  /\ UNCHANGED <<cfg, other, status, issueTitleSaved, activeWorkers, childProcess,
                 child, cloneDir, dirExists, attempt, curBranch, inspect,
                 dbLog, agentRuns, comments, spawned, preSpawnCancel, finalWriteOk,
                 doneEvents, cancels>>

\* git push exits; on success the branch is on origin and git diff HEAD~1
\* is invoked.
GitPush == CommitStage("gitPush", "diffHead", "pushed")

\* git diff HEAD~1 exits: the results are extracted, the DONE banner is
\* logged and the body returns {status: 'completed', ...}.
DiffHead ==
  /\ pc = "diffHead"
  /\ \/ Unwind("completed", "none", {"Done"})
     \/ Throw("exec")
  /\ UNCHANGED Rest

\* The removal attempted for this run of the finally block succeeds.
RmSucceeds == {TRUE, FALSE}

\* rm(cloneDir, {recursive, force}) settles in the finally block: on
\* success the directory is gone and the cleanup line is logged; a failure
\* is swallowed.  Then workerPromise settles.
Rm ==
  /\ pc = "rm"
  /\ \E ok \in RmSucceeds :
       IF ok THEN dirExists' = FALSE /\ Log({"Cleanup"})
             ELSE dirExists' = dirExists /\ NoLog
  /\ Settle(outcome)
  /\ UNCHANGED <<cfg, other, status, issueTitleSaved, outcome, error, activeWorkers,
                 childProcess, child, cloneDir, attempt, curBranch, inspect,
                 dbLog, agentRuns, gitOps, comments, rmAttempts, spawned,
                 preSpawnCancel, finalWriteOk, doneEvents, cancels>>

----------------------------------------------------------------------------
(* runWorker: the then/catch handlers of workerPromise *)

\* then handler, result not cancelled: finalStatus from isCancelled.
ThenIsCancelled ==
  /\ pc = "thenIsCancelled"
  /\ \E c \in isCancelled :
       finalStatus' = IF c THEN "cancelled" ELSE "completed"
  /\ pc' = "finalWrite"
  /\ NoLog
  /\ UNCHANGED <<outcome, error, rmAttempts>>
  /\ UNCHANGED Rest

\* catch handler: finalStatus is 'failed' unless isCancelled.
CatchIsCancelled ==
  /\ pc = "catchIsCancelled"
  /\ \E c \in isCancelled :
       finalStatus' = IF c THEN "cancelled" ELSE "failed"
  /\ pc' = "finalWrite"
  /\ NoLog
  /\ UNCHANGED <<outcome, error, rmAttempts>>
  /\ UNCHANGED Rest

\* The status the terminal prisma.job.update stores.
TerminalStatus == finalStatus

\* FinalWrite without the try/catch around the update: a failure rejects
\* the handler's promise and the catch handler of the chain runs.
FinalWriteFailureEscapes ==
  /\ pc = "finalWrite"
  /\ \/ /\ status' = TerminalStatus
        /\ dbLog' = logBuffer
        /\ finalWriteOk' = TRUE
        /\ pc' = "finalEmit"
     \/ /\ UNCHANGED <<status, dbLog, finalWriteOk>>
        /\ pc' = "catchIsCancelled"
  /\ NoLog
  /\ UNCHANGED <<cfg, other, issueTitleSaved, outcome, error, finalStatus,
                 activeWorkers, childProcess, child, cloneDir, dirExists,
                 attempt, curBranch, inspect, agentRuns, gitOps, comments,
                 rmAttempts, spawned, preSpawnCancel, doneEvents, cancels>>

\* prisma.job.update({status: finalStatus, log: logBuffer, ...}) of either
\* handler settles; a failure is reported on the console and swallowed.
FinalWrite ==
  /\ pc = "finalWrite"
  /\ \/ /\ status' = TerminalStatus
        /\ dbLog' = logBuffer
        /\ finalWriteOk' = TRUE
     \/ UNCHANGED <<status, dbLog, finalWriteOk>>
  /\ pc' = "finalEmit"
  /\ NoLog
  /\ UNCHANGED <<cfg, other, issueTitleSaved, outcome, error, finalStatus,
                 activeWorkers, childProcess, child, cloneDir, dirExists,
                 attempt, curBranch, inspect, agentRuns, gitOps, comments,
                 rmAttempts, spawned, preSpawnCancel, doneEvents, cancels>>

\* FinalEmit with the "[worker exited: ...]" line published after the done
\* event instead of before it.
FinalEmitExitLineLast ==
  /\ pc = "finalEmit"
  /\ activeWorkers' = FALSE
  /\ subs' = EmitLog(EmitDone(subs, finalStatus))
  /\ pubAfterDone' = TRUE
  /\ doneEvents' = Append(doneEvents, finalStatus)
  /\ pc' = "done"
  /\ UNCHANGED <<cfg, other, status, issueTitleSaved, outcome, error, finalStatus,
                 childProcess, child, cloneDir, dirExists, attempt, curBranch,
                 inspect, logBuffer, flushTimer, dbLog, agentRuns, gitOps,
                 comments, rmAttempts, spawned, preSpawnCancel, finalWriteOk, cancels>>

\* FinalEmit with the catch handler leaving the registry entry in place.
FinalEmitKeepsEntryOnFailure ==
  /\ pc = "finalEmit"
  /\ activeWorkers' = IF outcome = "rejected" THEN activeWorkers ELSE FALSE
  /\ subs' = EmitDone(EmitLog(subs), finalStatus)
  /\ pubAfterDone' = (pubAfterDone \/ doneEvents # <<>>)
  /\ doneEvents' = Append(doneEvents, finalStatus)
  /\ pc' = "done"
  /\ UNCHANGED <<cfg, other, status, issueTitleSaved, outcome, error, finalStatus,
                 childProcess, child, cloneDir, dirExists, attempt, curBranch,
                 inspect, logBuffer, flushTimer, dbLog, agentRuns, gitOps,
                 comments, rmAttempts, spawned, preSpawnCancel, finalWriteOk, cancels>>

\* After the terminal write: the registry entry is deleted, the
\* "[worker exited: ...]" line is published on the log topic and the done
\* event is published with finalStatus.
FinalEmit ==
  /\ pc = "finalEmit"
  /\ activeWorkers' = FALSE
  /\ subs' = EmitDone(EmitLog(subs), finalStatus)
  /\ pubAfterDone' = (pubAfterDone \/ doneEvents # <<>>)
  /\ doneEvents' = Append(doneEvents, finalStatus)
  /\ pc' = "done"
  /\ UNCHANGED <<cfg, other, status, issueTitleSaved, outcome, error, finalStatus,
                 childProcess, child, cloneDir, dirExists, attempt, curBranch,
                 inspect, logBuffer, flushTimer, dbLog, agentRuns, gitOps,
                 comments, rmAttempts, spawned, preSpawnCancel, finalWriteOk, cancels>>

----------------------------------------------------------------------------
(* POST /api/jobs/:jobId/cancel and the cancellation registry *)

\* The state of the agent process after childProcess.kill(signal) with the
\* default signal SIGTERM: a process that does not ignore it is terminated.
Kill(ch) ==
  CASE ch \in {"run", "hang"} -> "killed"
    [] ch = "deaf"            -> "deafTermed"
    [] ch = "runDeaf"         -> "runDeafTermed"
    [] OTHER                  -> ch

\* prisma.job.findUnique of the cancel route: a job that is not running is
\* returned as it is.  (Requests are interchangeable: they are numbered in
\* the order of their reads.)
CancelRead(c) ==
  /\ cancels[c] = "idle"
  /\ pc # "created"
  /\ c > 1 => cancels[c - 1] # "idle"
  /\ cancels' = [cancels EXCEPT ![c] = IF status = "running" THEN "read"
                                                              ELSE "noop"]
  /\ UNCHANGED <<cfg, other, pc, status, issueTitleSaved, outcome, error,
                 finalStatus, activeWorkers, childProcess, child, cloneDir,
                 dirExists, attempt, curBranch, inspect, logBuffer,
                 flushTimer, dbLog, agentRuns, gitOps, comments, rmAttempts,
                 spawned, preSpawnCancel, finalWriteOk, doneEvents, pubAfterDone, subs>>

\* cancelWorker(job.id): if the registry holds the worker, worker.kill()
\* signals the agent process when childProcess is set, and the entry is
\* deleted.  The route then issues its status write.
CancelWorker(c) ==
  /\ cancels[c] = "read"
  /\ cancels' = [cancels EXCEPT ![c] = "write"]
  /\ child' = IF activeWorkers /\ childProcess THEN Kill(child) ELSE child
  /\ activeWorkers' = FALSE
  /\ UNCHANGED <<cfg, other, pc, status, issueTitleSaved, outcome, error,
                 finalStatus, childProcess, cloneDir, dirExists, attempt,
                 curBranch, inspect, logBuffer, flushTimer, dbLog, agentRuns,
                 gitOps, comments, rmAttempts, spawned, preSpawnCancel, finalWriteOk,
                 doneEvents, pubAfterDone, subs>>

\* prisma.job.update({ data: { status: 'cancelled' } }) of the cancel route
\* takes effect, or fails (the request then ends with an error).
CancelWrite(c) ==
  /\ cancels[c] = "write"
  /\ \/ /\ status' = "cancelled"
        /\ preSpawnCancel' = (preSpawnCancel \/ ~spawned)
        /\ cancels' = [cancels EXCEPT ![c] = "done"]
     \/ /\ UNCHANGED <<status, preSpawnCancel>>
        /\ cancels' = [cancels EXCEPT ![c] = "done"]
  /\ UNCHANGED <<cfg, other, pc, issueTitleSaved, outcome, error, finalStatus,
                 activeWorkers, childProcess, child, cloneDir, dirExists,
                 attempt, curBranch, inspect, logBuffer, flushTimer, dbLog,
                 agentRuns, gitOps, comments, rmAttempts, spawned,
                 finalWriteOk, doneEvents, pubAfterDone, subs>>

----------------------------------------------------------------------------
(* GET /api/jobs/:jobId/log *)

SubFrame ==
  <<cfg, other, pc, status, issueTitleSaved, outcome, error, finalStatus,
    activeWorkers, childProcess, child, cloneDir, dirExists, attempt,
    curBranch, inspect, logBuffer, flushTimer, dbLog, agentRuns, gitOps,
    comments, rmAttempts, spawned, preSpawnCancel, finalWriteOk, doneEvents, pubAfterDone,
    cancels>>

\* prisma.job.findUnique of the stream route reads the job.  (Clients are
\* interchangeable: they are numbered in the order of their reads.)
SubRead(s) ==
  /\ subs[s].pc = "idle"
  /\ pc # "created"
  /\ s > 1 => subs[s - 1].pc # "idle"
  /\ subs' = [subs EXCEPT ![s].pc = "read", ![s].seen = status,
                          ![s].late = (doneEvents # <<>>)]
  /\ UNCHANGED SubFrame

\* The route continues with the job it read: a job that is not running
\* gets its done event at once and the stream ends; otherwise the onLog and
\* onDone listeners are registered.
SubAttach(s) ==
  /\ subs[s].pc = "read"
  /\ subs' = IF subs[s].seen # "running"
               THEN [subs EXCEPT ![s].pc = "ended", ![s].seen = "none",
                                 ![s].dones = Append(@, subs[s].seen)]
               ELSE [subs EXCEPT ![s].pc = "listening", ![s].seen = "none"]
  /\ UNCHANGED SubFrame

\* The client closes the connection: both listeners are removed.
SubClose(s) ==
  /\ subs[s].pc = "listening"
  /\ subs' = [subs EXCEPT ![s].pc = "gone"]
  /\ UNCHANGED SubFrame

----------------------------------------------------------------------------

Engine ==
  \/ RunWorker \/ GhTitle \/ GhBody \/ SaveTitle \/ Ckpt1 \/ FetchBase
  \/ FetchBranch \/ RemoteUrl \/ Clone \/ SetUrl \/ FetchWs \/ LsRemote
  \/ Checkout \/ Ckpt2 \/ LoopCkpt \/ AgentExit \/ Diff1 \/ Diff2 \/ LsFiles
  \/ Comment \/ Ckpt4 \/ BranchQuery \/ GitAdd \/ GitCommit \/ GitPush
  \/ DiffHead \/ Rm \/ ThenIsCancelled \/ CatchIsCancelled \/ FinalWrite
  \/ FinalEmit

CancelRoute == \E c \in Cancels : CancelRead(c) \/ CancelWorker(c) \/ CancelWrite(c)

StreamRoute == \E s \in Subs : SubRead(s) \/ SubAttach(s) \/ SubClose(s)

\* The job, its flush timer and the cancel requests racing with it.
Next ==
  \/ Engine
  \/ AgentOutput
  \/ Flush
  \/ CancelRoute

Spec == Init /\ [][Next]_vars

\* The same with the clients of the live log stream, which only read what
\* the job writes.
StreamNext ==
  \/ Next
  \/ StreamRoute

SpecStream == Init /\ [][StreamNext]_vars

\* Scheduling: the event loop runs every continuation that is ready, every
\* command run through exec ends (it carries a timeout), the store answers
\* every request, and an agent process that can exit does.  An agent
\* process in state "hang", "deaf" or "deafTermed" never exits, so AgentExit
\* is not enabled for it.
FairSpec == Spec /\ WF_vars(Engine) /\ WF_vars(CancelRoute)

\* The same scheduling of the job when nobody is obliged to send a cancel
\* request.
FairJobSpec == Spec /\ WF_vars(Engine)

----------------------------------------------------------------------------
(* providers/claude.ts: the stdout parser of runAgent *)

\* Longest stdout content fed to the parser, in bytes.
MaxBytes == 4

\* Bytes of the agent's stdout: "{" and "}" delimit a JSON record, "a" and
\* "r" are ASCII bytes, "h" "t" are the two bytes of one UTF-8 character,
\* "n" is the newline.
Bytes == {"{", "}", "a", "r", "h", "t", "n"}

\* Well-formed UTF-8: the lead byte and its trail byte come together.
ValidUtf8(b) ==
  \A i \in 1..Len(b) :
     /\ b[i] = "h" => (i < Len(b) /\ b[i + 1] = "t")
     /\ b[i] = "t" => (i > 1 /\ b[i - 1] = "h")

Contents ==
  {b \in UNION {[1..k -> Bytes] : k \in 0..MaxBytes} : ValidUtf8(b)}

\* chunk.toString(): each chunk is decoded by itself.  A complete two-byte
\* sequence yields its character "c"; a lead byte without its trail byte,
\* or a trail byte without its lead byte, yields U+FFFD ("x").
RECURSIVE Decode(_)
Decode(b) ==
  IF b = <<>> THEN <<>>
  ELSE IF b[1] = "h" /\ Len(b) >= 2 /\ b[2] = "t"
    THEN <<"c">> \o Decode(SubSeq(b, 3, Len(b)))
  ELSE IF b[1] \in {"h", "t"}
    THEN <<"x">> \o Decode(Tail(b))
  ELSE <<b[1]>> \o Decode(Tail(b))

\* JSON.parse(line) succeeds: the line is one record.
IsRecord(line) ==
  /\ Len(line) >= 2
  /\ line[1] = "{"
  /\ line[Len(line)] = "}"
  /\ \A i \in 2..(Len(line) - 1) : line[i] \notin {"{", "}"}

\* processLine with a result event appended to finalResult.
ProcessLineResultAppends(st, line) ==
  IF ~IsRecord(line) THEN st
  ELSE LET p == SubSeq(line, 2, Len(line) - 1) IN
       IF p = <<>> THEN st
       ELSE IF p[1] = "a"
         THEN [st EXCEPT !.calls = Append(@, <<"onToolUse", Tail(p)>>)]
       ELSE IF p[1] = "r"
         THEN [st EXCEPT !.finalResult = @ \o Tail(p)]
       ELSE [st EXCEPT !.finalResult = @ \o p,
                       !.calls = Append(@, <<"onText", p>>)]

\* processLine(line): a line that does not parse is dropped.  A record
\* whose payload starts with "a" is an assistant event with a tool_use
\* block (onToolUse); one that starts with "r" is a result event (a
\* non-empty result replaces finalResult); any other non-empty payload is
\* an assistant event with a text block (appended to finalResult, onText).
ProcessLine(st, line) ==
  IF ~IsRecord(line) THEN st
  ELSE LET p == SubSeq(line, 2, Len(line) - 1) IN
       IF p = <<>> THEN st
       ELSE IF p[1] = "a"
         THEN [st EXCEPT !.calls = Append(@, <<"onToolUse", Tail(p)>>)]
       ELSE IF p[1] = "r"
         THEN IF Tail(p) = <<>> THEN st
              ELSE [st EXCEPT !.finalResult = Tail(p)]
       ELSE [st EXCEPT !.finalResult = @ \o p,
                       !.calls = Append(@, <<"onText", p>>)]

\* lineBuf.split('\n') with the last piece popped back: every complete
\* line of buf is processed in order and the rest stays in lineBuf.
RECURSIVE ProcessBuffer(_, _, _)
ProcessBuffer(st, line, buf) ==
  IF buf = <<>> THEN [st EXCEPT !.lineBuf = line]
  ELSE IF buf[1] = "n"
    THEN ProcessBuffer(ProcessLine(st, line), <<>>, Tail(buf))
  ELSE ProcessBuffer(st, Append(line, buf[1]), Tail(buf))

\* child.stdout.on('data', chunk)
StdoutData(st, chunk) ==
  ProcessBuffer(st, <<>>, st.lineBuf \o Decode(chunk))

\* child.on('close'): the leftover partial line is parsed as a last line.
StdoutClose(st) ==
  IF st.lineBuf # <<>> THEN ProcessLine(st, st.lineBuf) ELSE st

ParserStart == [lineBuf |-> <<>>, calls |-> <<>>, finalResult |-> <<>>]

InitParser ==
  /\ InitJob
  /\ cfg = [isDirect |-> FALSE, isFollowUp |-> FALSE, providerKnown |-> TRUE]
  /\ parser \in {[whole |-> b, rest |-> b, st |-> ParserStart,
                  closed |-> FALSE] : b \in Contents}
  /\ extract = "off"
  /\ api = "off"
  /\ ws = "off"
  /\ RestOff

jobVars ==
  <<cfg, pc, status, issueTitleSaved, outcome, error, finalStatus,
    activeWorkers, childProcess, child, cloneDir, dirExists, attempt,
    curBranch, inspect, logBuffer, flushTimer, dbLog, agentRuns, gitOps,
    comments, rmAttempts, spawned, preSpawnCancel, doneEvents, pubAfterDone,
    cancels, subs, finalWriteOk>>

\* The next chunk arrives: any non-empty prefix of what is still to come.
OnData ==
  /\ ~parser.closed
  /\ \E k \in 1..Len(parser.rest) :
       parser' = [parser EXCEPT
                    !.st = StdoutData(@, SubSeq(parser.rest, 1, k)),
                    !.rest = SubSeq(@, k + 1, Len(@))]
  /\ UNCHANGED <<jobVars, rest, extract, api, ws>>

\* The process closes after its whole output was delivered.
OnClose ==
  /\ ~parser.closed
  /\ parser.rest = <<>>
  /\ parser' = [parser EXCEPT !.st = StdoutClose(@), !.closed = TRUE]
  /\ UNCHANGED <<jobVars, rest, extract, api, ws>>

ParserNext ==
  \/ OnData
  \/ OnClose

ParserSpec == InitParser /\ [][ParserNext]_vars

----------------------------------------------------------------------------
(* runWorker: extraction of the change-description *)

\* Longest agent result text the extraction is applied to, in symbols.
MaxText == 5

\* Symbols of the agent's result text: "S" is the marker
\* ---PR_BODY_START---, "E" the marker ---PR_BODY_END---, "n" a newline,
\* "s" a space, "x" any other character.
Symbols == {"S", "E", "n", "s", "x"}

Texts == UNION {[1..k -> Symbols] : k \in 0..MaxText}

\* String.prototype.trim()
RECURSIVE TrimWs(_)
TrimWs(t) ==
  IF t = <<>> THEN t
  ELSE IF t[1] \in {"n", "s"} THEN TrimWs(Tail(t))
  ELSE IF t[Len(t)] \in {"n", "s"} THEN TrimWs(SubSeq(t, 1, Len(t) - 1))
  ELSE t

\* The ends of the capture for a match that starts at the marker at i: the
\* positions j of a newline directly followed by the end marker.
BodyEnds(t, i) ==
  {j \in (i + 2)..(Len(t) - 1) : t[j] = "n" /\ t[j + 1] = "E"}

\* The regular expression that also matches markers not on lines of their own.
MatchBodyAnywhere(t) ==
  LET starts == {i \in 1..Len(t) :
                   t[i] = "S" /\ \E j \in (i + 1)..Len(t) : t[j] = "E"}
  IN  IF starts = {} THEN [found |-> FALSE, body |-> <<>>]
      ELSE LET i == CHOOSE a \in starts : \A b \in starts : a <= b
               ends == {j \in (i + 1)..Len(t) : t[j] = "E"}
               j == CHOOSE a \in ends : \A b \in ends : a <= b
           IN  [found |-> TRUE, body |-> SubSeq(t, i + 1, j - 1)]

\* claudeOutput.match(/---PR_BODY_START---\n([\s\S]*?)\n---PR_BODY_END---/):
\* the leftmost start marker directly followed by a newline for which a
\* newline directly followed by the end marker comes later, and the
\* shortest capture from there.
MatchBody(t) ==
  LET starts == {i \in 1..Len(t) :
                   i < Len(t) /\ t[i] = "S" /\ t[i + 1] = "n"
                     /\ BodyEnds(t, i) # {}}
  IN  IF starts = {} THEN [found |-> FALSE, body |-> <<>>]
      ELSE LET i == CHOOSE a \in starts : \A b \in starts : a <= b
               j == CHOOSE a \in BodyEnds(t, i) :
                      \A b \in BodyEnds(t, i) : a <= b
           IN  [found |-> TRUE, body |-> SubSeq(t, i + 2, j - 1)]

\* The default description: "_Auto-generated by Vampire_" ("D"), after
\* "Resolves #<issueNo>" and a blank line ("R") for a job with an issue.
DefaultBody(isDirect) == IF isDirect THEN <<"D">> ELSE <<"R", "D">>

\* prBody = prBodyMatch?.[1]?.trim() || null; if (!prBody) prBody = default
ExtractPrBody(t, isDirect) ==
  LET m == MatchBody(t)
      trimmed == IF m.found THEN TrimWs(m.body) ELSE <<>>
  IN  IF trimmed = <<>> THEN DefaultBody(isDirect) ELSE trimmed

InitExtract ==
  /\ InitJob
  /\ ~cfg.isFollowUp /\ cfg.providerKnown
  /\ extract \in {[text |-> t, prBody |-> <<>>, done |-> FALSE] : t \in Texts}
  /\ parser = "off"
  /\ api = "off"
  /\ ws = "off"
  /\ RestOff

\* The extraction after the commit stage, applied to the agent's result.
ExtractResults ==
  /\ ~extract.done
  /\ extract' = [extract EXCEPT
                   !.prBody = ExtractPrBody(extract.text, cfg.isDirect),
                   !.done = TRUE]
  /\ UNCHANGED <<jobVars, rest, parser, api, ws>>

ExtractNext == ExtractResults

ExtractSpec == InitExtract /\ [][ExtractNext]_vars

----------------------------------------------------------------------------
(* routes/jobs.ts: the requests that start jobs for one issue of a project *)

\* Number of requests (create, retry, follow-up) sent for the issue.
MaxRequests == 3

Requests == 1..MaxRequests

\* Rows of the job table with the project and issue number in question.
RunningJobs(jobs) == {j \in 1..Len(jobs) : jobs[j].status = "running"}

\* prisma.job.create({ data: { ..., status: 'running' } }) followed by
\* runWorker in the same turn of the event loop.
StartJob(jobs) == Append(jobs, [status |-> "running", branch |-> FALSE])

InitApi ==
  /\ InitJob
  /\ cfg = [isDirect |-> FALSE, isFollowUp |-> FALSE, providerKnown |-> TRUE]
  /\ api = [jobs |-> <<>>, reqs |-> [r \in Requests |-> "idle"]]
  /\ parser = "off"
  /\ extract = "off"
  /\ ws = "off"
  /\ RestOff

ApiStep(r, to, jobs) ==
  /\ api' = [jobs |-> jobs, reqs |-> [api.reqs EXCEPT ![r] = to]]
  /\ UNCHANGED <<jobVars, rest, parser, extract, ws>>

\* POST /api/projects/:id/jobs with an issue number: findFirst for a running
\* job of the issue answers; a job found is returned, otherwise the route
\* goes on to create one.  (Requests are interchangeable: they are numbered
\* in the order of their first reads.)
CreateCheck(r) ==
  /\ api.reqs[r] = "idle"
  /\ r > 1 => api.reqs[r - 1] # "idle"
  /\ ApiStep(r, IF RunningJobs(api.jobs) # {} THEN "returned" ELSE "create",
             api.jobs)

\* prisma.job.create of the create route, then runWorker.
CreateJob(r) ==
  /\ api.reqs[r] = "create"
  /\ ApiStep(r, "started", StartJob(api.jobs))

\* POST /api/jobs/:jobId/retry: findUnique answers with the old job; a
\* running old job is returned, otherwise the route goes on to create one.
RetryRead(r) ==
  /\ api.reqs[r] = "idle"
  /\ r > 1 => api.reqs[r - 1] # "idle"
  /\ \E j \in 1..Len(api.jobs) :
       ApiStep(r, IF api.jobs[j].status = "running" THEN "returned"
                                                     ELSE "retry", api.jobs)

\* prisma.job.create of the retry route, then runWorker.
RetryJob(r) ==
  /\ api.reqs[r] = "retry"
  /\ ApiStep(r, "started", StartJob(api.jobs))

\* POST /api/jobs/:jobId/followup: findUnique answers with the old job; an
\* old job without branch is refused, otherwise (with a message) the route
\* goes on to create a job.
FollowUpRead(r) ==
  /\ api.reqs[r] = "idle"
  /\ r > 1 => api.reqs[r - 1] # "idle"
  /\ \E j \in 1..Len(api.jobs) :
       ApiStep(r, IF api.jobs[j].branch THEN "followup" ELSE "refused",
               api.jobs)

\* prisma.job.create of the follow-up route, then runWorker.
FollowUpJob(r) ==
  /\ api.reqs[r] = "followup"
  /\ ApiStep(r, "started", StartJob(api.jobs))

\* The terminal write of a running job's handler: the status, and the
\* branch of a body that completed.
JobEnds ==
  /\ \E j \in RunningJobs(api.jobs) :
       \E st \in Terminal, br \in BOOLEAN :
          /\ st = "completed" => br
          /\ st = "failed" => ~br
          /\ api' = [api EXCEPT !.jobs[j] = [status |-> st, branch |-> br]]
  /\ UNCHANGED <<jobVars, rest, parser, extract, ws>>

ApiNext ==
  \/ \E r \in Requests :
        \/ CreateCheck(r) \/ CreateJob(r)
        \/ RetryRead(r) \/ RetryJob(r)
        \/ FollowUpRead(r) \/ FollowUpJob(r)
  \/ JobEnds

ApiSpec == InitApi /\ [][ApiNext]_vars

----------------------------------------------------------------------------
(* runWorker: the workspaces of jobs that run side by side *)

\* Number of jobs running side by side.
MaxJobs == 2
\* Largest issue number of a job.
MaxIssue == 2
\* Last value of the millisecond clock.
MaxClock == 1

JobIds == 1..MaxJobs

\* Kinds of job: direct (issueNo null, written 0) or with an issue number.
JobKinds ==
  {[isDirect |-> TRUE, issueNo |-> 0]}
    \cup {[isDirect |-> FALSE, issueNo |-> n] : n \in 1..MaxIssue}

\* join(tmpdir(), isDirect ? `vampire-direct-${job.id}-${Date.now()}`
\*                         : `vampire-${issueNo}-${Date.now()}`)
CloneDirName(id, kind, now) ==
  IF kind.isDirect THEN <<"vampire-direct", id, now>>
                   ELSE <<"vampire", kind.issueNo, now>>

InitWs ==
  /\ InitJob
  /\ cfg = [isDirect |-> FALSE, isFollowUp |-> FALSE, providerKnown |-> TRUE]
  /\ ws \in {[kind |-> k,
              at |-> [j \in JobIds |-> "fetch"],
              dir |-> [j \in JobIds |-> <<>>],
              now |-> 0,
              disk |-> {},
              foreign |-> {}] : k \in [JobIds -> JobKinds]}
  /\ parser = "off"
  /\ extract = "off"
  /\ api = "off"
  /\ RestOff

WsFrame == UNCHANGED <<jobVars, rest, parser, extract, api>>

\* The millisecond clock advances.
Tick ==
  /\ ws.now < MaxClock
  /\ ws' = [ws EXCEPT !.now = @ + 1]
  /\ WsFrame

\* Directories that are the workspace of a job other than j: named by it
\* and not yet given up by its finally block.
WorkspacesOfOthers(j) ==
  {ws.dir[i] : i \in {i \in JobIds : i # j /\ ws.at[i] \in {"clone", "agent", "rm"}}}

\* git remote get-url exits and cloneDir is named from the clock.
NameWorkspace(j) ==
  /\ ws.at[j] = "fetch"
  /\ ws' = [ws EXCEPT !.at[j] = "clone",
                      !.dir[j] = CloneDirName(j, ws.kind[j], ws.now)]
  /\ WsFrame

\* git clone <projectRoot> <cloneDir> exits: it fails when the directory
\* exists with content, and otherwise creates it.
CloneWorkspace(j) ==
  /\ ws.at[j] = "clone"
  /\ IF ws.dir[j] \in ws.disk
       THEN ws' = [ws EXCEPT !.at[j] = "rm"]
       ELSE ws' = [ws EXCEPT !.at[j] = "agent", !.disk = @ \cup {ws.dir[j]}]
  /\ WsFrame

\* The agent runs in cloneDir and the commit stage follows, or fails.
RunInWorkspace(j) ==
  /\ ws.at[j] = "agent"
  /\ ws' = [ws EXCEPT !.at[j] = "rm"]
  /\ WsFrame

\* finally: rm(cloneDir, {recursive, force}); "foreign" records the jobs
\* that removed a directory which was the workspace of another job.
RemoveWorkspace(j) ==
  /\ ws.at[j] = "rm"
  /\ ws' = [ws EXCEPT !.at[j] = "done",
                      !.disk = @ \ {ws.dir[j]},
                      !.foreign = IF ws.dir[j] \in WorkspacesOfOthers(j)
                                    THEN @ \cup {j} ELSE @]
  /\ WsFrame

WsNext ==
  \/ Tick
  \/ \E j \in JobIds :
        \/ NameWorkspace(j)
        \/ CloneWorkspace(j)
        \/ RunInWorkspace(j)
        \/ RemoveWorkspace(j)

WsSpec == InitWs /\ [][WsNext]_vars

----------------------------------------------------------------------------
(* worker.ts: scheduleFlush and its timers, on a clock *)

\* The delay of the flush timer, 2000 ms, in seconds.
DEBOUNCE_S == 2
\* Last value of the clock, in seconds.
MaxTime == 6
\* Number of log calls of the job.
MaxLines == 3

\* scheduleFlush without the test for a pending timer.
ScheduleFlushAlways(d) ==
  [d EXCEPT !.timers = Append(@, d.now + DEBOUNCE_S), !.entry = TRUE]

\* scheduleFlush(jobId, prisma, getLog): nothing when flushTimers has an
\* entry for the job; otherwise a timer is set and entered.
ScheduleFlush(d) ==
  IF d.entry THEN d
  ELSE [d EXCEPT !.timers = Append(@, d.now + DEBOUNCE_S), !.entry = TRUE]

\* The sequence s without its i-th element.
RemoveAt(s, i) == SubSeq(s, 1, i - 1) \o SubSeq(s, i + 1, Len(s))

InitDebounce ==
  /\ InitJob
  /\ cfg = [isDirect |-> FALSE, isFollowUp |-> FALSE, providerKnown |-> TRUE]
  /\ debounce = [now |-> 0, lines |-> 0, timers |-> <<>>, entry |-> FALSE,
                 writes |-> <<>>, termAt |-> -1,
                 db |-> [status |-> "running", log |-> 0, result |-> FALSE]]
  /\ parser = "off"
  /\ extract = "off"
  /\ api = "off"
  /\ ws = "off"
  /\ bus = "off"
  /\ ctx = "off"
  /\ prompt = "off"

DebounceFrame == UNCHANGED <<jobVars, parser, extract, api, ws, bus, ctx, prompt>>

\* Time passes (a timer that is due may fire late).
TimePasses ==
  /\ debounce.now < MaxTime
  /\ debounce' = [debounce EXCEPT !.now = @ + 1]
  /\ DebounceFrame

\* log(text) while the body of the job runs: the line is appended and
\* scheduleFlush is called.
LogCall ==
  /\ debounce.termAt < 0
  /\ debounce.lines < MaxLines
  /\ debounce' = ScheduleFlush([debounce EXCEPT !.lines = @ + 1])
  /\ DebounceFrame

\* A timer that is due fires: the entry of the job is deleted and the
\* update of the log field is issued (it may fail).
TimerFires ==
  /\ \E i \in 1..Len(debounce.timers) :
       /\ debounce.timers[i] <= debounce.now
       /\ \E ok \in BOOLEAN :
            debounce' = [debounce EXCEPT
                           !.timers = RemoveAt(@, i),
                           !.entry = FALSE,
                           !.writes = Append(@, debounce.now),
                           !.db.log = IF ok THEN debounce.lines ELSE @]
  /\ DebounceFrame

\* The terminal update of the then/catch handler: status, log and result
\* fields.
TerminalUpdate ==
  /\ debounce.termAt < 0
  /\ \E st \in Terminal :
       debounce' = [debounce EXCEPT
                      !.termAt = debounce.now,
                      !.db = [status |-> st, log |-> debounce.lines,
                              result |-> st = "completed"]]
  /\ DebounceFrame

DebounceNext ==
  \/ TimePasses
  \/ LogCall
  \/ TimerFires
  \/ TerminalUpdate

DebounceSpec == InitDebounce /\ [][DebounceNext]_vars

----------------------------------------------------------------------------
(* worker.ts log and routes/jobs.ts GET /api/jobs/:jobId/log: the lines
   published on the topic of a job and what the stream clients receive *)

\* Number of log calls of the job.
MaxPub == 3
\* Number of stream clients.
MaxClients == 2

Clients == 1..MaxClients

\* The line published by the handler after the body: "[worker exited: ...]".
ExitLine == 0

\* The onLog listener registered with once instead of on.
OnLogOnce(c, line) ==
  IF c.at = "listening" /\ c.got = <<>>
    THEN [c EXCEPT !.got = Append(@, line)] ELSE c

\* logEmitter.emit(`job:<id>`, line) as seen by one client: its onLog
\* listener, while registered, writes the line to the response.
OnLog(c, line) ==
  IF c.at = "listening" THEN [c EXCEPT !.got = Append(@, line)] ELSE c

\* logEmitter.emit(`job:<id>:done`, status): onDone ends the response.
OnDone(c, n) ==
  IF c.at = "listening" THEN [c EXCEPT !.at = "ended", !.to = n] ELSE c

InitBus ==
  /\ InitJob
  /\ cfg = [isDirect |-> FALSE, isFollowUp |-> FALSE, providerKnown |-> TRUE]
  /\ bus = [buffer |-> <<>>, published |-> <<>>, status |-> "running",
            done |-> FALSE,
            clients |-> [c \in Clients |->
                           [at |-> "idle", seen |-> "none", from |-> 0,
                            to |-> 0, got |-> <<>>]]]
  /\ parser = "off"
  /\ extract = "off"
  /\ api = "off"
  /\ ws = "off"
  /\ debounce = "off"
  /\ ctx = "off"
  /\ prompt = "off"

BusFrame == UNCHANGED <<jobVars, parser, extract, api, ws, debounce, ctx, prompt>>

\* log(text): the line is appended to logBuffer and published.
BusLog ==
  /\ bus.status = "running"
  /\ Len(bus.buffer) < MaxPub
  /\ LET line == Len(bus.buffer) + 1
     IN  bus' = [bus EXCEPT
                   !.buffer = Append(@, line),
                   !.published = Append(@, line),
                   !.clients = [c \in Clients |-> OnLog(bus.clients[c], line)]]
  /\ BusFrame

\* The terminal update of the handler (it may fail).
BusTerminalWrite ==
  /\ bus.status = "running"
  /\ ~bus.done
  /\ bus' \in {[bus EXCEPT !.status = "ended"], [bus EXCEPT !.status = "unwritten"]}
  /\ BusFrame

\* The handler publishes the exit line and then the done event.
BusExit ==
  /\ bus.status # "running"
  /\ ~bus.done
  /\ LET pub == Append(bus.published, ExitLine)
     IN  bus' = [bus EXCEPT
                   !.published = pub,
                   !.done = TRUE,
                   !.clients = [c \in Clients |->
                                  OnDone(OnLog(bus.clients[c], ExitLine), Len(pub))]]
  /\ BusFrame

\* prisma.job.findUnique of the stream route.
BusRead(c) ==
  /\ bus.clients[c].at = "idle"
  /\ c > 1 => bus.clients[c - 1].at # "idle"
  /\ bus' = [bus EXCEPT !.clients[c].at = "read",
                        !.clients[c].seen = bus.status]
  /\ BusFrame

\* The route goes on: a job read as not running is answered with done at
\* once; otherwise onLog and onDone are registered.
BusAttach(c) ==
  /\ bus.clients[c].at = "read"
  /\ bus' = IF bus.clients[c].seen = "ended"
              THEN [bus EXCEPT !.clients[c].at = "ended",
                               !.clients[c].from = Len(bus.published),
                               !.clients[c].to = Len(bus.published)]
              ELSE [bus EXCEPT !.clients[c].at = "listening",
                               !.clients[c].from = Len(bus.published)]
  /\ BusFrame

\* The client closes the connection: both listeners are removed.
BusClose(c) ==
  /\ bus.clients[c].at = "listening"
  /\ bus' = [bus EXCEPT !.clients[c].at = "gone",
                        !.clients[c].to = Len(bus.published)]
  /\ BusFrame

BusNext ==
  \/ BusLog
  \/ BusTerminalWrite
  \/ BusExit
  \/ \E c \in Clients : BusRead(c) \/ BusAttach(c) \/ BusClose(c)

BusSpec == InitBus /\ [][BusNext]_vars

----------------------------------------------------------------------------
(* worker.ts: context resolution, fetch and workspace checkout by mode *)

\* Largest job id and issue number.
MaxId == 2

Types == {"feat", "fix"}

\* Branch names `${type}/${n}`.
BranchNames == Types \X (1..MaxId)

NoBranch == <<"none", 0>>

\* Inputs of runWorker: the job (id, type, issueNo; 0 stands for null) and
\* the follow-up request (its branch; NoBranch when there is none).
CtxInputs ==
  [id : 1..MaxId, type : Types, issueNo : 0..MaxId,
   followUp : BranchNames \cup {NoBranch}]

\* The branch name of a direct job taken from the issue number.
BranchNameByIssue(in) ==
  IF in.followUp # NoBranch THEN in.followUp ELSE <<in.type, in.issueNo>>

\* branchName as the three branches of the context resolution assign it.
BranchNameFor(in) ==
  IF in.followUp # NoBranch THEN in.followUp
  ELSE IF in.issueNo = 0 THEN <<in.type, in.id>>
  ELSE <<in.type, in.issueNo>>

InitCtx ==
  /\ InitJob
  /\ cfg = [isDirect |-> FALSE, isFollowUp |-> FALSE, providerKnown |-> TRUE]
  /\ ctx \in {[in |-> i, at |-> "start", branchName |-> NoBranch,
               lookups |-> 0, titleSaved |-> FALSE, fetched |-> {},
               checkout |-> "none"] : i \in CtxInputs}
  /\ parser = "off"
  /\ extract = "off"
  /\ api = "off"
  /\ ws = "off"
  /\ debounce = "off"
  /\ bus = "off"
  /\ prompt = "off"

CtxFrame == UNCHANGED <<jobVars, parser, extract, api, ws, debounce, bus, prompt>>

\* An awaited command or store call rejects: the body unwinds.
CtxFails ==
  /\ ctx.at \in {"ghTitle", "ghBody", "saveTitle", "fetchBase", "clone",
                 "fetchWs", "checkout"}
  /\ ctx' = [ctx EXCEPT !.at = "failed"]
  /\ CtxFrame

\* The synchronous start of the body: follow-up and direct jobs have their
\* branch name at once; an issue job starts gh issue view for the title.
CtxResolve ==
  /\ ctx.at = "start"
  /\ ctx' = IF ctx.in.followUp # NoBranch \/ ctx.in.issueNo = 0
              THEN [ctx EXCEPT !.at = "ckpt1",
                               !.branchName = BranchNameFor(ctx.in)]
              ELSE [ctx EXCEPT !.at = "ghTitle", !.lookups = @ + 1]
  /\ CtxFrame

\* gh issue view (title) exits; gh issue view (body) starts.
CtxTitle ==
  /\ ctx.at = "ghTitle"
  /\ ctx' = [ctx EXCEPT !.at = "ghBody", !.lookups = @ + 1]
  /\ CtxFrame

\* gh issue view (body) exits; branchName is set and the title update is
\* issued.
CtxBody ==
  /\ ctx.at = "ghBody"
  /\ ctx' = [ctx EXCEPT !.at = "saveTitle",
                        !.branchName = BranchNameFor(ctx.in)]
  /\ CtxFrame

\* prisma.job.update({ data: { issueTitle } }) resolves.
CtxSaveTitle ==
  /\ ctx.at = "saveTitle"
  /\ ctx' = [ctx EXCEPT !.at = "ckpt1", !.titleSaved = TRUE]
  /\ CtxFrame

\* The checkpoint passes and git fetch origin <baseBranch> starts.
CtxCheckpoint ==
  /\ ctx.at = "ckpt1"
  /\ ctx' = [ctx EXCEPT !.at = "fetchBase", !.fetched = @ \cup {"base"}]
  /\ CtxFrame

\* git fetch origin <baseBranch> exits; a follow-up also fetches its branch
\* (advisory); then the clone of the base branch starts.
CtxFetch ==
  /\ ctx.at = "fetchBase"
  /\ ctx' = [ctx EXCEPT !.at = "clone",
                        !.fetched = IF ctx.in.followUp # NoBranch
                                      THEN @ \cup {"branch"} ELSE @]
  /\ CtxFrame

\* git clone and git remote set-url exit; a follow-up fetches its branch in
\* the workspace.
CtxClone ==
  /\ ctx.at = "clone"
  /\ ctx' = [ctx EXCEPT !.at = IF ctx.in.followUp # NoBranch
                                 THEN "fetchWs" ELSE "checkout"]
  /\ CtxFrame

\* Follow-up: git fetch origin <branchName> in the workspace exits.
CtxFetchWs ==
  /\ ctx.at = "fetchWs"
  /\ ctx' = [ctx EXCEPT !.at = "checkout"]
  /\ CtxFrame

\* git checkout -b <branchName> origin/<branchName> (follow-up) or
\* git checkout -b <branchName> on the cloned base branch exits.
CtxCheckout ==
  /\ ctx.at = "checkout"
  /\ ctx' = [ctx EXCEPT !.at = "ready",
                        !.checkout = IF ctx.in.followUp # NoBranch
                                       THEN <<"tracking", ctx.branchName>>
                                       ELSE <<"base", ctx.branchName>>]
  /\ CtxFrame

CtxNext ==
  \/ CtxFails
  \/ CtxResolve
  \/ CtxTitle
  \/ CtxBody
  \/ CtxSaveTitle
  \/ CtxCheckpoint
  \/ CtxFetch
  \/ CtxClone
  \/ CtxFetchWs
  \/ CtxCheckout

CtxSpec == InitCtx /\ [][CtxNext]_vars

----------------------------------------------------------------------------
(* providers/claude.ts: the stdout parser of runAgent fed line by line *)

\* Number of stdout lines of one agent run.
MaxRecords == 3

\* Lines of the agent's stdout, as bytes: the empty line, two lines that
\* are not JSON, a record of no known kind, a result event without result
\* text, two result events, two assistant events with a text block and one
\* with a tool_use block.
SampleLines ==
  { <<>>,
    <<"a">>,
    <<"{", "r">>,
    <<"{", "}">>,
    <<"{", "r", "}">>,
    <<"{", "r", "a", "}">>,
    <<"{", "r", "r", "}">>,
    <<"{", "h", "t", "}">>,
    <<"{", "h", "t", "a", "}">>,
    <<"{", "a", "r", "}">> }

Outputs == UNION {[1..k -> SampleLines] : k \in 0..MaxRecords}

InitLines ==
  /\ InitJob
  /\ cfg = [isDirect |-> FALSE, isFollowUp |-> FALSE, providerKnown |-> TRUE]
  /\ parser \in {[whole |-> o, rest |-> o, st |-> ParserStart,
                  closed |-> FALSE] : o \in Outputs}
  /\ extract = "off"
  /\ api = "off"
  /\ ws = "off"
  /\ RestOff

\* The next line arrives in a chunk of its own, with its newline; the last
\* line may come without one.
FeedLine ==
  /\ ~parser.closed
  /\ parser.rest # <<>>
  /\ \E nl \in {TRUE, Len(parser.rest) > 1} :
       parser' = [parser EXCEPT
                    !.st = StdoutData(@, Head(parser.rest)
                                           \o (IF nl THEN <<"n">> ELSE <<>>)),
                    !.rest = Tail(@)]
  /\ UNCHANGED <<jobVars, rest, extract, api, ws>>

\* The process closes after its last line.
FeedClose ==
  /\ ~parser.closed
  /\ parser.rest = <<>>
  /\ parser' = [parser EXCEPT !.st = StdoutClose(@), !.closed = TRUE]
  /\ UNCHANGED <<jobVars, rest, extract, api, ws>>

LinesNext ==
  \/ FeedLine
  \/ FeedClose

LinesSpec == InitLines /\ [][LinesNext]_vars

----------------------------------------------------------------------------
(* worker.ts: the prompts built for the agent attempts *)

\* Final textual outputs an agent attempt can return.
AgentOutputs == {"o1", "o2"}

\* Inputs of the prompt construction: the mode, whether project.prompt is
\* set, whether the workspace has a PR template, whether the follow-up
\* carries a previous diff.
PromptInputs ==
  [isFollowUp : BOOLEAN, isDirect : BOOLEAN, extraPrompt : BOOLEAN,
   prTemplate : BOOLEAN, previousDiff : BOOLEAN]

\* The prompt of the first attempt: the task reference; the issue body
\* (new work) or the previous-work block and the feedback message
\* (follow-up); the instructions that files must be edited; the project
\* rules when set; the block with the PR body markers.
FirstPrompt(in) ==
  [parts |->
     {"taskRef", "mustModify", "markers"}
       \cup (IF in.isFollowUp THEN {"previousWork", "feedback"} ELSE {"issueBody"})
       \cup (IF in.isFollowUp /\ in.previousDiff THEN {"previousDiff"} ELSE {})
       \cup (IF in.extraPrompt THEN {"projectRules"} ELSE {})
       \cup (IF in.prTemplate THEN {"prTemplate"} ELSE {}),
   previous |-> "none"]

\* The prompt of a retry: the task reference, issueBody (the empty string
\* in a follow-up), the previous response, the retry instructions, and the
\* project rules when set.
RetryPrompt(in, claudeOutput) ==
  [parts |->
     {"taskRef", "mustModify", "retryInstructions"}
       \cup (IF in.isFollowUp THEN {} ELSE {"issueBody"})
       \cup (IF in.extraPrompt THEN {"projectRules"} ELSE {}),
   previous |-> claudeOutput]

InitPrompt ==
  /\ InitJob
  /\ cfg = [isDirect |-> FALSE, isFollowUp |-> FALSE, providerKnown |-> TRUE]
  /\ prompt \in {[in |-> i, passed |-> <<>>, outputs |-> <<>>] : i \in PromptInputs}
  /\ parser = "off"
  /\ extract = "off"
  /\ api = "off"
  /\ ws = "off"
  /\ debounce = "off"
  /\ bus = "off"
  /\ ctx = "off"

PromptFrame == UNCHANGED <<jobVars, parser, extract, api, ws, debounce, bus, ctx>>

\* provider.runAgent({prompt: currentPrompt, ...}) of the next attempt.
PassPrompt ==
  /\ Len(prompt.passed) = Len(prompt.outputs)
  /\ Len(prompt.passed) < MAX_RETRY + 1
  /\ prompt' = [prompt EXCEPT
                  !.passed = Append(@,
                     IF prompt.passed = <<>>
                       THEN FirstPrompt(prompt.in)
                       ELSE RetryPrompt(prompt.in,
                                        prompt.outputs[Len(prompt.outputs)]))]
  /\ PromptFrame

\* The attempt returns its final output and leaves no change.
AttemptReturns ==
  /\ Len(prompt.outputs) < Len(prompt.passed)
  /\ \E o \in AgentOutputs :
       prompt' = [prompt EXCEPT !.outputs = Append(@, o)]
  /\ PromptFrame

PromptNext ==
  \/ PassPrompt
  \/ AttemptReturns

PromptSpec == InitPrompt /\ [][PromptNext]_vars

----------------------------------------------------------------------------
(* Claims *)

Settled == pc = "done"

\* C1 (as claimed): once the persisted status has left 'running' for a
\* terminal value, no later status write changes it.
C1_TerminalStatusNeverOverwritten ==
  [][(status \in Terminal) => (status' = status)]_vars

\* C2 (as claimed): once the job has settled, the directory named by
\* cloneDir does not exist.
C2_WorkspaceAbsentWhenSettled ==
  (Settled /\ cloneDir) => ~dirExists

FinalizationPcs ==
  {"rm", "thenIsCancelled", "catchIsCancelled", "finalWrite", "finalEmit",
   "done"}

\* C3: no git add, commit or push is invoked while the workspace is on the
\* base branch; when the commit stage reads the base branch the body fails
\* with the FATAL error (logged, workerPromise rejected, never 'completed')
\* and no agent attempt follows.
C3_NoCommitOnBaseBranch ==
  /\ [](curBranch = "base" => gitOps = {})
  /\ [](error = "fatalBranch" =>
          /\ curBranch = "base"
          /\ outcome = "rejected"
          /\ "Error" \in logBuffer
          /\ pc \in FinalizationPcs
          /\ finalStatus # "completed")
  /\ [][(error = "fatalBranch") => (agentRuns' = agentRuns)]_vars

\* The agent left the workspace on the base branch and the job settled.
C3_Witness ==
  /\ Settled /\ error = "fatalBranch" /\ curBranch = "base"
  /\ agentRuns = 1 /\ gitOps = {}

AllEmpty == [unstaged |-> "empty", staged |-> "empty", untracked |-> "empty"]

\* The change inspection after the last agent run found a change (or could
\* not be completed, which the loop treats as a change).
ChangeFound ==
  \E f \in {"unstaged", "staged", "untracked"} : inspect[f] \in {"changed", "error"}

C5_ExhaustionAlwaysFailed ==
  (Settled /\ error = "noChanges") =>
     /\ doneEvents = <<"failed">>
     /\ agentRuns = MAX_RETRY + 1
     /\ "NoChanges" \in logBuffer
     /\ gitOps = {}
     /\ comments = IF cfg.isDirect THEN 0 ELSE 1

\* C5 (amended): the same, except that the job ends with status cancelled
\* instead of failed when the catch handler's cancelled-check finds the
\* status a cancel request has written.
C5_ExhaustionFailedOrCancelled ==
  (Settled /\ error = "noChanges") =>
     /\ \/ doneEvents = <<"failed">>
        \/ /\ doneEvents = <<"cancelled">>
           /\ status = "cancelled"
           /\ \E c \in Cancels : cancels[c] = "done"
     /\ agentRuns = MAX_RETRY + 1
     /\ "NoChanges" \in logBuffer
     /\ gitOps = {}
     /\ comments = IF cfg.isDirect THEN 0 ELSE 1

\* An issue job exhausted its retries, attempted its comment and failed.
C5_Witness ==
  /\ Settled /\ error = "noChanges" /\ ~cfg.isDirect
  /\ comments = 1 /\ doneEvents = <<"failed">> /\ status = "failed"

\* C6 (as claimed): if the status was set to cancelled before the job
\* spawned any subprocess, the agent is never run, no commit-stage command
\* is invoked and the persisted status of the settled job is cancelled.
C6_PreSpawnCancelWins ==
  preSpawnCancel =>
     /\ agentRuns = 0
     /\ gitOps = {}
     /\ Settled => status = "cancelled"

\* C7: a job publishes its done event exactly when it settles, once, with
\* the final status, and publishes nothing on its log topic afterwards.
C7_OneDoneEventLast ==
  /\ Len(doneEvents) <= 1
  /\ (doneEvents # <<>>) <=> Settled
  /\ Settled => doneEvents = <<finalStatus>>
  /\ ~pubAfterDone

\* A job that ran its agent settled as completed with its one done event.
C7_Witness ==
  /\ Settled /\ doneEvents = <<"completed">> /\ "Done" \in logBuffer
  /\ "Cleanup" \in logBuffer

NoCancelWorkerYet == \A c \in Cancels : cancels[c] \in {"idle", "read", "noop"}

\* C9: from the return of runWorker the registry holds the job's entry
\* until cancelWorker or the job's settling removes it; a settled job has
\* no entry, whatever its outcome and whether or not it was cancelled; an
\* entry is created by runWorker alone.
C9_RegistryLifecycle ==
  /\ []((pc \notin {"created", "done"} /\ NoCancelWorkerYet) => activeWorkers)
  /\ [](Settled => ~activeWorkers)
  /\ [][(~activeWorkers /\ activeWorkers') => (pc = "created")]_vars

\* A job with an unknown provider failed before its first await and settled
\* with no registry entry, no cancel request having been made.
C9_Witness ==
  /\ Settled /\ ~cfg.providerKnown /\ ~activeWorkers
  /\ doneEvents = <<"failed">> /\ \A c \in Cancels : cancels[c] = "idle"

\* C10 (as claimed): an agent process that was sent the signal of
\* cancelWorker terminates, and the job then settles.
C10_CancelledAgentTerminates ==
  (child \in {"killed", "deafTermed", "runDeafTermed"}) ~> Settled

CancelRequested == \E c \in Cancels : cancels[c] # "idle"

\* C11 (as claimed): every started job settles (publishes its done event)
\* without the help of a cancel request, even when its agent process never
\* exits on its own.
C11_JobSettlesWithoutCancel ==
  (pc # "created") ~> (Settled \/ CancelRequested)

\* Errors of the fatal class: a failed command (or store call) of the body,
\* the push-safety violation, the exhausted retry budget.
FatalErrors == {"exec", "fatalBranch", "noChanges"}

AdvisoryGoOn ==
  /\ [][(pc = "fetchBranch") => (pc' \in {"fetchBranch", "remoteUrl"})]_vars
  /\ [][(pc = "lsRemote") => (pc' \in {"lsRemote", "checkout"})]_vars

C13_CancellationNeverAnError ==
  (Settled /\ error \in {"cancelled", "killed"}) =>
     /\ "Error" \notin logBuffer
     /\ doneEvents = <<"cancelled">>

HandlerPcs ==
  {"thenIsCancelled", "catchIsCancelled", "finalWrite", "finalEmit", "done"}

\* C14: for a job that named a workspace, the removal is attempted (once)
\* and has settled before the then/catch handler starts, hence before the
\* terminal write and before the done event, whatever ended the body.
C14_CleanupBeforePersistence ==
  /\ []((cloneDir /\ pc \in HandlerPcs) => rmAttempts = 1)
  /\ [][(rmAttempts' # rmAttempts) =>
          (pc \notin HandlerPcs /\ pc' = "rm" /\ ~finalWriteOk
             /\ doneEvents = <<>>)]_vars
  /\ [][(pc = "rm" /\ pc' # "rm") =>
          (pc' \in {"thenIsCancelled", "catchIsCancelled", "finalWrite"}
             /\ ~finalWriteOk' /\ doneEvents' = <<>>)]_vars

\* A job cancelled at a checkpoint after its workspace was made settled
\* with the removal attempted and the terminal write done.
C14_Witness ==
  /\ Settled /\ cloneDir /\ error = "cancelled" /\ rmAttempts = 1
  /\ finalWriteOk /\ doneEvents = <<"cancelled">>

\* What the parser has done when the whole content arrives as one chunk.
OneChunk(b) ==
  StdoutClose(IF b = <<>> THEN ParserStart ELSE StdoutData(ParserStart, b))

\* C15 (as claimed): however the content was split into chunks, the
\* callbacks made and the final result are those of the one-chunk delivery.
C15_ChunkingIndependent ==
  parser.closed =>
     /\ parser.st.calls = OneChunk(parser.whole).calls
     /\ parser.st.finalResult = OneChunk(parser.whole).finalResult

Positions(t, sym) == {i \in 1..Len(t) : t[i] = sym}

\* The text has one start marker and, later, one end marker.
OneMarkerPair(t) ==
  /\ Cardinality(Positions(t, "S")) = 1
  /\ Cardinality(Positions(t, "E")) = 1
  /\ \A i \in Positions(t, "S") : \A j \in Positions(t, "E") : i < j

\* The text between the start marker and the end marker.
Between(t) ==
  LET i == CHOOSE a \in Positions(t, "S") : TRUE
      j == CHOOSE a \in Positions(t, "E") : TRUE
  IN  SubSeq(t, i + 1, j - 1)

\* Each marker is on a line of its own as far as the body is concerned: a
\* newline follows the start marker and another one precedes the end marker.
OnOwnLines(t) ==
  /\ Len(Between(t)) >= 2
  /\ Between(t)[1] = "n"
  /\ Between(t)[Len(Between(t))] = "n"

\* C16 (as claimed), for a body that is not blank: the description of a
\* text with a start marker and a later end marker is the text between them,
\* trimmed.
C16_BodyBetweenMarkers ==
  (extract.done /\ OneMarkerPair(extract.text)
     /\ TrimWs(Between(extract.text)) # <<>>) =>
        extract.prBody = TrimWs(Between(extract.text))

\* C16 (amended): the description is the trimmed text between the markers
\* when a newline directly follows the start marker, another newline
\* directly precedes the end marker and the text between is not blank; it is
\* the default description (with "Resolves #<issue>" first for a job with an
\* issue) when that is not so, and when a marker is absent.
C16_BodyBetweenMarkerLines ==
  extract.done =>
     /\ OneMarkerPair(extract.text) =>
          extract.prBody =
            IF OnOwnLines(extract.text) /\ TrimWs(Between(extract.text)) # <<>>
              THEN TrimWs(Between(extract.text))
              ELSE DefaultBody(cfg.isDirect)
     /\ (Positions(extract.text, "S") = {} \/ Positions(extract.text, "E") = {})
          => extract.prBody = DefaultBody(cfg.isDirect)

\* The body between two marker lines was extracted for an issue job.
C16_Witness ==
  /\ extract.done /\ ~cfg.isDirect
  /\ extract.text = <<"S", "n", "x", "n", "E">>
  /\ extract.prBody = <<"x">>

\* C17 (as claimed): at most one job of the issue has status running.
C17_OneRunningJobPerIssue ==
  Cardinality(RunningJobs(api.jobs)) <= 1

\* C18 (as claimed): two jobs that hold a workspace at the same time hold
\* different directories, and no job removes the workspace of another.
C18_WorkspacesNeverShared ==
  /\ \A i, j \in JobIds :
        (i # j /\ ws.at[i] \in {"clone", "agent", "rm"}
               /\ ws.at[j] \in {"clone", "agent", "rm"})
          => ws.dir[i] # ws.dir[j]
  /\ ws.foreign = {}

\* The stage a program location belongs to: 1 context resolution, 2 fetch,
\* 3 workspace preparation, 4 agent run with its retries, 5 commit and
\* push, 6 finalization (0 before runWorker is called).
Stage(at) ==
  CASE at = "created" -> 0
    [] at \in {"ghTitle", "ghBody", "saveTitle", "ckpt1"} -> 1
    [] at \in {"fetchBase", "fetchBranch"} -> 2
    [] at \in {"remoteUrl", "clone", "setUrl", "fetchWs", "lsRemote",
               "checkout", "ckpt2"} -> 3
    [] at \in {"loopCkpt", "agent", "diff1", "diff2", "lsFiles", "comment",
               "ckpt4"} -> 4
    [] at \in {"branchQuery", "gitAdd", "gitCommit", "gitPush", "diffHead"} -> 5
    [] OTHER -> 6

\* Program locations at which the job awaits a git or gh command.
ExecPcs ==
  {"ghTitle", "ghBody", "fetchBase", "fetchBranch", "remoteUrl", "clone",
   "setUrl", "fetchWs", "lsRemote", "checkout", "diff1", "diff2", "lsFiles",
   "comment", "branchQuery", "gitAdd", "gitCommit", "gitPush", "diffHead"}

\* The external processes of the job that are alive.
AliveProcesses ==
  (IF pc \in ExecPcs THEN {pc} ELSE {})
    \cup (IF child \in Alive THEN {"agentProcess"} ELSE {})

\* C19: the stages follow one another in the fixed order (a stage is left
\* for its successor or for finalization only, and finalization is never
\* left); the job has at most one external process alive, the agent process
\* is alive only while the job awaits it, and an agent attempt or a command
\* starts only when no earlier process is alive.
C19_StagesInOrderOneProcess ==
  /\ [](Cardinality(AliveProcesses) <= 1 /\ (child \in Alive => pc = "agent"))
  /\ [][/\ Stage(pc') \in {Stage(pc), Stage(pc) + 1, 6}
        /\ Stage(pc) = 6 => Stage(pc') = 6
        /\ agentRuns' # agentRuns => child \notin Alive
        /\ (pc' \in ExecPcs /\ pc' # pc) => child' \notin Alive]_vars

\* A job that went through every stage, the agent stage with a retry.
C19_Witness ==
  /\ pc = "done"
  /\ finalStatus = "completed"
  /\ agentRuns = 2
  /\ "pushed" \in gitOps

\* C20: a failing log flush or a failing terminal write changes nothing of
\* the job's outcome: the flush touches the persisted log only; the handler
\* goes from the terminal write to the publication with finalStatus as it
\* was computed, whether the write succeeded or not; and a settled job has
\* no registry entry and exactly one done event, carrying finalStatus.
C20_BestEffortFailuresKeepOutcome ==
  /\ [](Settled => /\ ~activeWorkers
                   /\ finalStatus \in Terminal
                   /\ doneEvents = <<finalStatus>>)
  /\ [][/\ (flushTimer /\ ~flushTimer')
             => UNCHANGED <<pc, outcome, finalStatus, status, activeWorkers,
                            doneEvents>>
        /\ (pc = "finalWrite" /\ pc' # pc)
             => pc' = "finalEmit" /\ finalStatus' = finalStatus
        /\ pc = "finalEmit" => finalStatus' = finalStatus]_vars

\* A settled job none of whose log writes succeeded: its last flush and its
\* terminal write both failed.
C20_Witness ==
  /\ Settled
  /\ ~finalWriteOk
  /\ ~flushTimer
  /\ logBuffer # {}
  /\ dbLog = {}
  /\ finalStatus = "completed"

\* The terminal write of the then handler stored the result's branch, diff,
\* prBody and prTitle (a cancelled result carries none of them).
ResultPersisted == finalWriteOk /\ outcome = "completed"

\* C21 (as claimed): a job that ended cancelled and persisted it has
\* invoked neither git commit nor git push, and its record holds no branch,
\* diff or change description.
C21_CancelledNeverCommitted ==
  (Settled /\ finalWriteOk /\ finalStatus = "cancelled")
    => /\ gitOps \cap {"commit", "push", "pushed"} = {}
       /\ ~ResultPersisted

\* One of the three change-inspection commands of the last attempt failed.
InspectionFailed ==
  "error" \in {inspect.unstaged, inspect.staged, inspect.untracked}

InspectPcs == {"diff1", "diff2", "lsFiles"}

\* C22 (as claimed): after a failed inspection command the job goes on to
\* the commit stage: the step that leaves the checkpoint after the loop
\* invokes git branch --show-current.
C22_InspectionFailureReachesCommit ==
  [][(InspectionFailed /\ pc = "ckpt4" /\ pc' # pc) => pc' = "branchQuery"]_vars

\* C22 (amended): a failing inspection command ends the retry loop without
\* an error: the job goes to the checkpoint before the commit stage with no
\* further agent attempt and never fails for want of changes; from the
\* checkpoint it enters the commit stage unless it finds the job cancelled.
C22_InspectionFailureCountsAsChange ==
  /\ [](InspectionFailed => error # "noChanges")
  /\ [][/\ (pc \in InspectPcs /\ pc' # pc /\ InspectionFailed')
             => pc' = "ckpt4" /\ outcome' = "pending"
        /\ InspectionFailed => agentRuns' = agentRuns
        /\ (InspectionFailed /\ pc = "ckpt4" /\ pc' # pc)
             => \/ pc' = "branchQuery"
                \/ status = "cancelled" /\ outcome' = "cancelled"]_vars

\* A job whose first inspection command failed and which went on to push
\* and complete.
C22_Witness ==
  /\ Settled
  /\ inspect.unstaged = "error"
  /\ agentRuns = 1
  /\ "pushed" \in gitOps
  /\ finalStatus = "completed"

\* The agent run failed: handle.result rejected.
AgentFailed == error \in {"agent", "killed"}

\* All three inspection commands of the last attempt found nothing.
NoChangeObserved ==
  inspect = [unstaged |-> "empty", staged |-> "empty", untracked |-> "empty"]

\* C23: the await of handle.result is left either with a result, for the
\* change inspection, or with a rejection that unwinds to finalization; a
\* terminated or unspawned agent always rejects; after a rejection no agent
\* is run again; and an agent attempt other than the first starts only
\* after an attempt that exited successfully and left no change.
C23_AgentFailureNeverRetried ==
  /\ [](AgentFailed => outcome = "rejected" /\ Stage(pc) = 6)
  /\ [][/\ (pc = "agent" /\ pc' # pc)
             => \/ pc' = "diff1" /\ outcome' = "pending" /\ ~AgentFailed'
                \/ outcome' = "rejected" /\ AgentFailed' /\ Stage(pc') = 6
        /\ (pc = "agent" /\ pc' # pc /\ child \in {"killed", "spawnError"})
             => outcome' = "rejected"
        /\ AgentFailed => agentRuns' = agentRuns
        /\ (agentRuns' # agentRuns /\ agentRuns > 0)
             => NoChangeObserved /\ outcome = "pending"]_vars

\* A job whose second agent attempt failed.
C23_Witness ==
  /\ Settled
  /\ error = "agent"
  /\ agentRuns = 2
  /\ finalStatus = "failed"

\* C24: at most one flush timer is pending, and exactly when flushTimers
\* has the job's entry; a log call made while it is pending sets no timer;
\* two flush writes are at least the debounce delay apart; and a flush
\* write changes neither the persisted status nor the result fields.
C24_FlushDebounced ==
  /\ [](/\ Len(debounce.timers) <= 1
        /\ debounce.entry <=> debounce.timers # <<>>
        /\ \A i \in 1..(Len(debounce.writes) - 1) :
             debounce.writes[i + 1] - debounce.writes[i] >= DEBOUNCE_S)
  /\ [][/\ (debounce'.lines # debounce.lines /\ debounce.entry)
             => debounce'.timers = debounce.timers
        /\ debounce'.writes # debounce.writes
             => /\ debounce'.db.status = debounce.db.status
                /\ debounce'.db.result = debounce.db.result]_vars

\* Two flush writes, the second one issued after the terminal update, with
\* a log call that found the first timer pending.
C24_Witness ==
  /\ debounce.termAt >= 0
  /\ Len(debounce.writes) = 2
  /\ debounce.writes[2] > debounce.termAt
  /\ debounce.lines = 3
  /\ debounce.db.status = "completed"

\* The lines published while client c was subscribed.
PublishedWhileSubscribed(c) ==
  SubSeq(bus.published, bus.clients[c].from + 1,
         IF bus.clients[c].at = "listening" THEN Len(bus.published)
                                            ELSE bus.clients[c].to)

IsBufferLine(line) == line # ExitLine

\* C25: a client that registered its listeners while the job was running
\* has received exactly the lines published since the registration and up
\* to its detachment, in publication order; a client that has not
\* registered received none; and the lines of logBuffer are, in order, the
\* published lines other than the exit line.
C25_SubscriberGetsLinesSinceAttach ==
  /\ \A c \in Clients :
       IF bus.clients[c].at \in {"listening", "gone", "ended"}
         THEN bus.clients[c].got = PublishedWhileSubscribed(c)
         ELSE bus.clients[c].got = <<>>
  /\ bus.buffer = SelectSeq(bus.published, IsBufferLine)

\* A client that attached after the first line and left before the last.
C25_Witness ==
  /\ bus.clients[1].at = "gone"
  /\ bus.clients[1].got = <<2>>
  /\ bus.buffer = <<1, 2, 3>>

CtxFollowUp == ctx.in.followUp # NoBranch

CtxDirect == ctx.in.issueNo = 0

\* C26: a follow-up job works on the follow-up's branch, looks up no issue
\* and checks the branch out from its remote tracking ref; a direct job
\* works on <type>/<job id> and looks up no issue; an issue job works on
\* <type>/<issue number>, and once its fetch has started it has read title
\* and body and persisted the title; a job that is not a follow-up creates
\* its branch from the base branch.
C26_ContextByMode ==
  /\ ctx.branchName # NoBranch =>
       ctx.branchName = IF CtxFollowUp THEN ctx.in.followUp
                        ELSE IF CtxDirect THEN <<ctx.in.type, ctx.in.id>>
                        ELSE <<ctx.in.type, ctx.in.issueNo>>
  /\ (CtxFollowUp \/ CtxDirect) => ctx.lookups = 0 /\ ~ctx.titleSaved
  /\ (~CtxFollowUp /\ ~CtxDirect /\ ctx.fetched # {})
       => ctx.lookups = 2 /\ ctx.titleSaved
  /\ ctx.fetched # {} => ctx.branchName # NoBranch
  /\ ctx.at = "ready" =>
       ctx.checkout = IF CtxFollowUp THEN <<"tracking", ctx.in.followUp>>
                      ELSE <<"base", ctx.branchName>>

\* A direct job whose id differs from every issue number, ready on its
\* branch.
C26_Witness ==
  /\ ctx.at = "ready"
  /\ ctx.in = [id |-> 2, type |-> "fix", issueNo |-> 0, followUp |-> NoBranch]
  /\ ctx.checkout = <<"base", <<"fix", 2>>>>

\* The decoded payload of a line that is a record (<<>> otherwise).
Payload(line) ==
  IF IsRecord(Decode(line)) THEN SubSeq(Decode(line), 2, Len(Decode(line)) - 1)
  ELSE <<>>

\* The line is an assistant event with a text block.
IsTextLine(line) == Payload(line) # <<>> /\ Payload(line)[1] \notin {"a", "r"}

\* The line is a result event with a non-empty result.
IsResultLine(line) == Len(Payload(line)) >= 2 /\ Payload(line)[1] = "r"

\* The line is empty, not JSON, of no known kind, or a result event
\* without result text.
IsInertLine(line) == Len(Payload(line)) <= 1 /\ ~IsTextLine(line)

\* The text blocks of the lines ls[from..Len(ls)], concatenated in order.
RECURSIVE TextsFrom(_, _)
TextsFrom(ls, from) ==
  IF from > Len(ls) THEN <<>>
  ELSE (IF IsTextLine(ls[from]) THEN Payload(ls[from]) ELSE <<>>)
         \o TextsFrom(ls, from + 1)

ResultLines(ls) == {i \in 1..Len(ls) : IsResultLine(ls[i])}

TextLines(ls) == {i \in 1..Len(ls) : IsTextLine(ls[i])}

Last(S) == CHOOSE i \in S : \A j \in S : j <= i

\* C27 (as claimed): the final result is the text of the last result event
\* with a non-empty result when that event comes after every text block,
\* and the concatenation of all text blocks otherwise.
C27_ResultOrAllTexts ==
  parser.closed =>
    LET ls == parser.whole
        R  == ResultLines(ls)
    IN  parser.st.finalResult =
          IF R # {} /\ \A t \in TextLines(ls) : t < Last(R)
            THEN Tail(Payload(ls[Last(R)]))
            ELSE TextsFrom(ls, 1)

\* C27 (amended): the final result is the text of the last result event
\* with a non-empty result followed by the text blocks that come after it,
\* and the concatenation of all text blocks when there is no such event;
\* an inert line causes no callback and leaves the running result as it is.
C27_ResultThenLaterTexts ==
  /\ [](parser.closed =>
          LET ls == parser.whole
              R  == ResultLines(ls)
          IN  parser.st.finalResult =
                IF R # {}
                  THEN Tail(Payload(ls[Last(R)])) \o TextsFrom(ls, Last(R) + 1)
                  ELSE TextsFrom(ls, 1))
  /\ [][(~parser.closed /\ parser.rest # <<>> /\ parser'.rest # parser.rest
           /\ IsInertLine(Head(parser.rest)) /\ parser'.st.lineBuf = <<>>)
          => /\ parser'.st.finalResult = parser.st.finalResult
             /\ parser'.st.calls = parser.st.calls]_vars

\* A text block, then a result event, then a malformed line: the result
\* text is the final result.
C27_Witness ==
  /\ parser.closed
  /\ parser.whole = << <<"{", "h", "t", "}">>, <<"{", "r", "a", "}">>, <<"a">> >>
  /\ parser.st.finalResult = <<"a">>
  /\ parser.st.calls = << <<"onText", <<"c">> >> >>

\* C28 (as claimed): no stream client gets a second done event, and once
\* the job has settled every client that went on from its status read, and
\* did not close its connection, has got its done event.
C28_EverySubscriberGetsDone ==
  \A s \in Subs :
     /\ Len(subs[s].dones) <= 1
     /\ (Settled /\ subs[s].pc \in {"listening", "ended"})
          => Len(subs[s].dones) = 1

\* C29 (as claimed): every prompt passed to the provider holds the task
\* reference, the demand that files be modified, the project rules when
\* set, the block with the PR body markers and, in a follow-up, the
\* feedback message; a retry prompt also holds the previous output.
C29_EveryPromptComplete ==
  \A i \in 1..Len(prompt.passed) :
     /\ {"taskRef", "mustModify", "markers"} \subseteq prompt.passed[i].parts
     /\ prompt.in.extraPrompt => "projectRules" \in prompt.passed[i].parts
     /\ prompt.in.isFollowUp => "feedback" \in prompt.passed[i].parts
     /\ i > 1 => prompt.passed[i].previous = prompt.outputs[i - 1]

\* No cancel request is in progress.
CancelsQuiet == \A c \in Cancels : cancels[c] \in {"idle", "noop", "done"}

\* C30 (as claimed): once the job has settled with its terminal write done
\* and no cancel request is in progress, the persisted status is the status
\* the done event carried.
C30_DoneStatusIsPersistedStatus ==
  (Settled /\ finalWriteOk /\ CancelsQuiet) => doneEvents = <<status>>

====
